---- MODULE Spec2Model ----
(***************************************************************************)
(* A model of the chemfiles GRO format reader/writer (src/formats/GRO.cpp) *)
(* together with the Frame data model and the Trajectory engine it is used *)
(* with.                                                                   *)
(*                                                                         *)
(* Text is modelled as it is on disk: a file is a sequence of lines, a     *)
(* line a sequence of one-character strings.  Real numbers are fixed-point *)
(* integers counting 1e-5 units (Scale), which holds every value the GRO   *)
(* format can print (3, 4 or 5 decimals) exactly.                          *)
(***************************************************************************)
EXTENDS Integers, Sequences, FiniteSets, TLC

VARIABLES
    frame,            \* the Frame the caller holds
    file,             \* the lines of the file on disk
    mode,             \* "r" or "w": the mode the file is opened with
    opened,           \* "no" | "yes" | "failed": the GROFormat constructor's outcome
    cursor,           \* number of lines of the file already consumed (stream position)
    eofbit,           \* the stream's end-of-file flag (TextFile::eof)
    steps_positions,  \* GROFormat::steps_positions_
    residues_,        \* GROFormat::residues_ (map resid -> Residue, as a sequence sorted by id)
    step_index,       \* Trajectory: index of the next step read() reads
    done,             \* Trajectory: the done flag
    last,             \* the last operation: what was called, how it ended, the frame before it
    warnings,         \* the warnings the last operation sent to the warning sink
    layout,           \* how the file read was put together (history, for stating the claims)
    gz,               \* a GzFile: the inflated bytes, the stream position and the buffer
    CAPI_LAST_ERROR,  \* C API: the message of the last error
    tokens,           \* selections: the token stream given to the parser
    begin             \* selections: the token iterator the parser advances

\* the state of the components a GROFormat, a Trajectory and a Frame do not touch
elsewhere == <<gz, CAPI_LAST_ERROR, tokens, begin>>

vars == <<frame, file, mode, opened, cursor, eofbit, steps_positions, residues_,
          step_index, done, last, warnings, layout, elsewhere>>

(***************************************************************************)
(* Text                                                                    *)
(***************************************************************************)

Digits == <<"0", "1", "2", "3", "4", "5", "6", "7", "8", "9">>

IsDigit(c) == \E d \in 1..10 : Digits[d] = c

DigitVal(c) == (CHOOSE d \in 1..10 : Digits[d] = c) - 1

Pow10(n) == IF n = 0 THEN 1
            ELSE IF n = 1 THEN 10
            ELSE IF n = 2 THEN 100
            ELSE IF n = 3 THEN 1000
            ELSE IF n = 4 THEN 10000
            ELSE IF n = 5 THEN 100000
            ELSE 1000000

Abs(v) == IF v < 0 THEN 0 - v ELSE v

Max(a, b) == IF a >= b THEN a ELSE b

Min(a, b) == IF a <= b THEN a ELSE b

Spaces(n) == [k \in 1..n |-> " "]

\* std::to_string(unsigned) and fmt's {:d}: the decimal digits of n
RECURSIVE NatToStr(_)
NatToStr(n) == IF n < 10 THEN <<Digits[n + 1]>>
               ELSE NatToStr(n \div 10) \o <<Digits[(n % 10) + 1]>>

\* the decimal digits of n, zero-padded on the left to at least w digits
RECURSIVE ZeroPad(_, _)
ZeroPad(s, w) == IF Len(s) >= w THEN s ELSE ZeroPad(<<"0">> \o s, w)

\* fmt's {: >w}: right-aligned in a field of at least w characters, never cut
PadLeft(s, w) == IF Len(s) >= w THEN s ELSE Spaces(w - Len(s)) \o s

\* fmt's {: <w}: left-aligned in a field of at least w characters, never cut
PadRight(s, w) == IF Len(s) >= w THEN s ELSE s \o Spaces(w - Len(s))

\* std::string::substr(pos, n): the characters at zero-based pos .. pos+n-1,
\* cut at the end of the string
Substr(s, pos, n) ==
    IF pos >= Len(s) THEN <<>>
    ELSE SubSeq(s, pos + 1, IF pos + n > Len(s) THEN Len(s) ELSE pos + n)

RECURSIVE LStrip(_)
LStrip(s) == IF s # <<>> /\ Head(s) = " " THEN LStrip(Tail(s)) ELSE s

RECURSIVE RStrip(_)
RStrip(s) == IF s # <<>> /\ s[Len(s)] = " " THEN RStrip(SubSeq(s, 1, Len(s) - 1)) ELSE s

\* chemfiles::trim: the string without its leading and trailing blanks
Trim(s) == RStrip(LStrip(s))

\* chemfiles::split(s, ' '): the non-empty runs of characters between blanks
RECURSIVE SplitFrom(_, _, _)
SplitFrom(s, cur, acc) ==
    IF s = <<>> THEN (IF cur = <<>> THEN acc ELSE Append(acc, cur))
    ELSE IF Head(s) = " "
         THEN SplitFrom(Tail(s), <<>>, IF cur = <<>> THEN acc ELSE Append(acc, cur))
         ELSE SplitFrom(Tail(s), Append(cur, Head(s)), acc)

Split(s) == SplitFrom(s, <<>>, <<>>)

AllDigits(s) == \A k \in 1..Len(s) : IsDigit(s[k])

RECURSIVE DigitsVal(_, _)
DigitsVal(s, acc) == IF s = <<>> THEN acc
                     ELSE DigitsVal(Tail(s), acc * 10 + DigitVal(Head(s)))

\* a non-empty run of digits read as a number, or an error
ParseDigits(t) ==
    IF t # <<>> /\ AllDigits(t)
    THEN [ok |-> TRUE, v |-> DigitsVal(t, 0)]
    ELSE [ok |-> FALSE, v |-> 0]

\* chemfiles::parse<size_t>: leading blanks are skipped, what follows must be a
\* non-empty run of digits up to the end of the string
ParseSizeT(s) == ParseDigits(LStrip(s))

\* the digits after the decimal point as a count of 1e-5 units
FracVal(s) == DigitsVal(SubSeq(s \o <<"0", "0", "0", "0", "0">>, 1, 5), 0)

PointAt(s) == IF \E k \in 1..Len(s) : s[k] = "."
              THEN CHOOSE k \in 1..Len(s) : s[k] = "." /\ \A j \in 1..(k - 1) : s[j] # "."
              ELSE 0

\* the digits ip before and fp after the decimal point read as a count of
\* 1e-5 units, or an error when one of them holds anything but digits or both
\* are empty
ParseParts(ip, fp) ==
    IF AllDigits(ip) /\ AllDigits(fp) /\ Len(ip) + Len(fp) > 0
    THEN [ok |-> TRUE, v |-> DigitsVal(ip, 0) * 100000 + FracVal(fp)]
    ELSE [ok |-> FALSE, v |-> 0]

\* an unsigned decimal number whose decimal point is at p (0: none)
ParseAt(u, p) ==
    IF p = 0 THEN ParseParts(u, <<>>)
    ELSE ParseParts(SubSeq(u, 1, p - 1), SubSeq(u, p + 1, Len(u)))

ParseUnsigned(u) == ParseAt(u, PointAt(u))

Negated(r) == [r EXCEPT !.v = 0 - @]

ParseSigned(t) ==
    IF t # <<>> /\ Head(t) = "-" THEN Negated(ParseUnsigned(Tail(t)))
    ELSE ParseUnsigned(t)

\* chemfiles::parse<double>: leading blanks are skipped, then an optional sign,
\* digits, and optionally a point and digits, up to the end of the string.
\* The value is returned as a count of 1e-5 units.
ParseDouble(s) == ParseSigned(LStrip(s))

\* Natural numbers of more than 31 bits, as needed for the 53-bit mantissa of
\* a double: the sequence of the digits in base 4096, least significant first
BigOf(n) == <<n % 4096, (n \div 4096) % 4096, n \div 16777216>>

LimbHead(b) == IF b = <<>> THEN 0 ELSE Head(b)

LimbTail(b) == IF b = <<>> THEN <<>> ELSE Tail(b)

\* b * m + c, for m up to 2^18
RECURSIVE BigMul(_, _, _)
BigMul(b, m, c) ==
    IF b = <<>> /\ c = 0 THEN <<>>
    ELSE <<(LimbHead(b) * m + c) % 4096>>
         \o BigMul(LimbTail(b), m, (LimbHead(b) * m + c) \div 4096)

\* the quotient and the remainder of the division by D, once the digits
\* above lo gave the quotient and the remainder hi
BigDivStep(lo, hi, D) ==
    [q |-> <<(hi.r * 4096 + lo) \div D>> \o hi.q, r |-> (hi.r * 4096 + lo) % D]

\* the quotient q and the remainder r of b divided by D, for D up to 2^18
RECURSIVE BigDiv(_, _)
BigDiv(b, D) ==
    IF b = <<>> THEN [q |-> <<>>, r |-> 0]
    ELSE BigDivStep(Head(b), BigDiv(Tail(b), D), D)

BigCmpStep(x, y, higher) ==
    IF higher # 0 THEN higher ELSE IF x < y THEN -1 ELSE IF x > y THEN 1 ELSE 0

\* -1, 0 or 1 as a is below, equal to or above b
RECURSIVE BigCmp(_, _)
BigCmp(a, b) ==
    IF a = <<>> /\ b = <<>> THEN 0
    ELSE BigCmpStep(LimbHead(a), LimbHead(b), BigCmp(LimbTail(a), LimbTail(b)))

\* b + 1
RECURSIVE BigInc(_)
BigInc(b) ==
    IF b = <<>> THEN <<1>>
    ELSE IF Head(b) < 4095 THEN <<Head(b) + 1>> \o Tail(b)
    ELSE <<0>> \o BigInc(Tail(b))

\* b * 2^k
RECURSIVE BigShl(_, _)
BigShl(b, k) == IF k = 0 THEN b ELSE BigShl(BigMul(b, 2, 0), k - 1)

\* the quotient q.q with the remainder q.r of a division by D, rounded to the
\* nearest integer, ties to even (the rounding of IEEE 754 arithmetic)
NearestEven(q, D) ==
    IF 2 * q.r > D \/ (2 * q.r = D /\ LimbHead(q.q) % 2 = 1) THEN BigInc(q.q) ELSE q.q

\* the double nearest to n / D, n / D being below 2^52: its mantissa m of
\* 53 bits, that is n * 2^j / D rounded for the least j that gives 2^52 or
\* more, with n * 2^j and k + j
RECURSIVE NearestDouble(_, _, _)
NearestDouble(n, D, k) ==
    IF BigCmp(BigDiv(n, D).q, <<0, 0, 0, 0, 16>>) >= 0
    THEN [m |-> NearestEven(BigDiv(n, D), D), n |-> n, k |-> k]
    ELSE NearestDouble(BigMul(n, 2, 0), D, k + 1)

\* the double x / 10 against a / 10^6, x being the double x.m * 2^-x.k nearest
\* to a / 10^5 and y the double nearest to x / 10: -1, 0 or 1
TenthAgainst(x, y) ==
    BigCmp(BigMul(BigMul(y.m, 1000, 0), 1000, 0), BigShl(x.n, y.k))

\* the double that is printed against the decimal a * 10^-e (a > 0), -1, 0 or
\* 1 as it is below, equal or above: for e = 5 the double of the frame, the
\* nearest to a * 10^-5; for e = 6 that double divided by 10 ("/ 10" in
\* GROFormat::write)
DoubleAgainst(x, e) ==
    IF e = 5 THEN BigCmp(BigMul(x.m, 100000, 0), x.n)
    ELSE TenthAgainst(x, NearestDouble(x.m, 10, 0))

\* a tie, the decimal a * 10^-e being half-way between q and q + 1 units of
\* 10^-d: printf rounds the binary value, which is below or above the
\* decimal, and a binary value that is the decimal itself to the even digit
RoundTie(q, cmp) ==
    IF cmp > 0 \/ (cmp = 0 /\ q % 2 = 1) THEN q + 1 ELSE q

\* the magnitude a * 10^-e (a >= 0) rounded to d decimals (d <= e) as a count
\* of 10^-d units, u being 10^(e - d)
RoundMagnitude(a, e, u) ==
    IF 2 * (a % u) < u THEN a \div u
    ELSE IF 2 * (a % u) > u THEN (a \div u) + 1
    ELSE RoundTie(a \div u, DoubleAgainst(NearestDouble(BigOf(a), 100000, 0), e))

\* the value v * 10^-e (e = 5 or 6, v a count of 1e-5 units held as the
\* nearest double) rounded to d decimals as {:.df} rounds it: a count of
\* 10^-d units
RoundTo(v, e, d) ==
    IF v < 0 THEN 0 - RoundMagnitude(Abs(v), e, Pow10(e - d))
    ELSE RoundMagnitude(v, e, Pow10(e - d))

\* the magnitude a, a count of 10^-d units, printed with d decimals
FmtMagnitude(a, d) ==
    NatToStr(a \div Pow10(d)) \o <<".">> \o ZeroPad(NatToStr(a % Pow10(d)), d)

\* the double y against the decimal a * 10^-6, a being ten times the count c of
\* a column that was parsed, x1 the double nearest to c * 10^-5 (the result of
\* parse<double>), x2 its product by 10 rounded to a double, x2.m * 2^(s - x1.k)
\* with s = x2.s, and y the double nearest to x2 / 10: -1, 0 or 1
ParsedTenthAgainst(x1, x2, y) ==
    BigCmp(BigShl(BigMul(y.m, 100000, 0), x2.s), BigShl(x1.n, y.k))

\* m10, ten times the mantissa of 53 bits of a double, rounded to a double:
\* its mantissa of 53 bits m and the s with m10 = m * 2^s before rounding
TimesTen(m10) ==
    IF BigCmp(m10, <<0, 0, 0, 0, 256>>) < 0
    THEN [m |-> NearestEven(BigDiv(m10, 8), 8), s |-> 3]
    ELSE [m |-> NearestEven(BigDiv(m10, 16), 16), s |-> 4]

ParsedAgainstAt(x1, x2) == ParsedTenthAgainst(x1, x2, NearestDouble(x2.m, 10, 0))

\* the double that GROFormat::write prints for a number that GROFormat::read
\* left, (parse<double>(column) * 10) / 10, against the decimal of the column,
\* c * 10^-5 with c > 0
ParsedAgainst(x1) == ParsedAgainstAt(x1, TimesTen(BigMul(x1.m, 10, 0)))

\* the magnitude a * 10^-6 (a >= 0, a number that GROFormat::read left,
\* divided by 10) rounded to d decimals, u being 10^(6 - d)
RoundParsed(a, u) ==
    IF 2 * (a % u) < u THEN a \div u
    ELSE IF 2 * (a % u) > u THEN (a \div u) + 1
    ELSE RoundTie(a \div u, ParsedAgainst(NearestDouble(BigOf(a \div 10), 100000, 0)))

\* fmt's {:w.df} of the value v * 10^-e
FmtFixed(v, e, w, d) ==
    PadLeft((IF v < 0 THEN <<"-">> ELSE <<>>) \o FmtMagnitude(Abs(RoundTo(v, e, d)), d), w)

\* fmt's {:w.df} of a tenth of a number that GROFormat::read left: v its count
\* of 1e-5 units, minus whether the column it was parsed from has a minus
\* sign (the double keeps the sign when it is zero, and fmt prints it)
FmtParsed(v, minus, w, d) ==
    PadLeft((IF minus THEN <<"-">> ELSE <<>>)
            \o FmtMagnitude(RoundParsed(Abs(v), Pow10(6 - d)), d), w)

\* fmt's {:8.df} of a tenth of the k-th number of an atom of a frame: sg is
\* <<>> for numbers that the caller set, and holds the minus signs of the six
\* columns for numbers that GROFormat::read left
FmtHeld(v, sg, k, d) ==
    IF sg = <<>> THEN FmtFixed(v, 6, 8, d) ELSE FmtParsed(v, sg[k], 8, d)

(***************************************************************************)
(* The Frame data model                                                    *)
(***************************************************************************)

Zero3 == <<0, 0, 0>>

\* UnitCell(): the infinite cell.  m holds the entries [0][0], [1][1], [2][2],
\* [0][1], [0][2], [1][2] of the upper-triangular cell matrix.
InfiniteCell == [shape |-> "INFINITE", m |-> <<0, 0, 0, 0, 0, 0>>]

\* UnitCell(a, b, c)
OrthoCell(a, b, c) == [shape |-> "ORTHORHOMBIC", m |-> <<a, b, c, 0, 0, 0>>]

\* UnitCell(Matrix3D)
MatrixCell(v1x, v2y, v3z, v2x, v3x, v3y) ==
    [shape |-> "TRICLINIC", m |-> <<v1x, v2y, v3z, v2x, v3x, v3y>>]

\* Residue(name, id) and Residue(name)
Residue(name, id) == [name |-> name, has_id |-> TRUE, id |-> id, atoms |-> {}]

ResidueNoId(name) == [name |-> name, has_id |-> FALSE, id |-> 0, atoms |-> {}]

ResidueAddAtom(r, i) == [r EXCEPT !.atoms = @ \cup {i}]

\* Frame(): no atoms, an infinite cell, no velocities, no property.
\* A position or velocity is a count of 1e-5 units; parsed tells for each atom
\* which double the counts stand for: <<>> when the caller gave the numbers
\* (the double nearest to the count * 1e-5), and the minus signs of the six
\* columns of its line when GROFormat::read parsed them (the double
\* parse<double>(column) * 10, negative zero included).
EmptyFrame ==
    [step |-> 0, positions |-> <<>>, has_vel |-> FALSE, velocities |-> <<>>,
     atoms |-> <<>>, residues |-> <<>>, cell |-> InfiniteCell, props |-> {},
     parsed |-> <<>>]

\* Frame(topology, cell): positions are zero, no velocities
FrameFromTopology(top, cell) ==
    [step |-> 0, positions |-> [k \in 1..Len(top.atoms) |-> Zero3],
     has_vel |-> FALSE, velocities |-> <<>>,
     atoms |-> top.atoms, residues |-> top.residues, cell |-> cell, props |-> {},
     parsed |-> [k \in 1..Len(top.atoms) |-> <<>>]]

FrameSize(f) == Len(f.atoms)

\* a sequence cut to n elements, or padded to n elements with x
Resized(s, n, x) == [k \in 1..n |-> IF k <= Len(s) THEN s[k] ELSE x]

\* a sequence without its element at zero-based index i
Without(s, i) == [k \in 1..(Len(s) - 1) |-> IF k <= i THEN s[k] ELSE s[k + 1]]

\* Frame::resize(n): positions and velocities cut or zero-padded, atoms cut or
\* padded with default atoms, residues that refer to a removed atom dropped
FrameResize(f, n) ==
    LET Kept(r) == \A a \in r.atoms : a < n
    IN  [f EXCEPT !.positions = Resized(@, n, Zero3),
                  !.velocities = IF f.has_vel THEN Resized(@, n, Zero3) ELSE @,
                  !.atoms = Resized(@, n, <<>>),
                  !.parsed = Resized(@, n, <<>>),
                  !.residues = SelectSeq(@, Kept)]

\* Frame::reserve(n): memory only
FrameReserve(f, n) == f

\* Frame::add_velocities(): nothing when present, else zero velocities
FrameAddVelocities(f) ==
    IF f.has_vel THEN f
    ELSE [f EXCEPT !.has_vel = TRUE,
                   !.velocities = [k \in 1..Len(f.positions) |-> Zero3]]

\* an add_atom that forgets the velocities
FrameAddAtomNoVelocity(f, name, pos, vel) ==
    [f EXCEPT !.atoms = Append(@, name), !.positions = Append(@, pos),
              !.parsed = Append(@, <<>>)]

\* Frame::add_atom(atom, position, velocity): appended to the atoms and the
\* positions, and to the velocities when the frame has some
FrameAddAtom(f, name, pos, vel) ==
    [f EXCEPT !.atoms = Append(@, name),
              !.positions = Append(@, pos),
              !.velocities = IF f.has_vel THEN Append(@, vel) ELSE @,
              !.parsed = Append(@, <<>>)]

\* Frame::remove(i): OutOfBounds when i is not an atom; else atom i leaves the
\* atoms, positions and velocities, a residue holding it is dropped and the
\* higher indexes move down by one
FrameRemove(f, i) ==
    LET Kept(r) == i \notin r.atoms
        Shift(r) == [r EXCEPT !.atoms = {IF a > i THEN a - 1 ELSE a : a \in @}]
        kept == SelectSeq(f.residues, Kept)
    IN  IF i >= FrameSize(f)
        THEN [ok |-> FALSE, err |-> "OutOfBounds", frame |-> f]
        ELSE [ok |-> TRUE, err |-> "",
              frame |-> [f EXCEPT !.atoms = Without(@, i),
                                  !.positions = Without(@, i),
                                  !.parsed = Without(@, i),
                                  !.velocities = IF f.has_vel THEN Without(@, i) ELSE @,
                                  !.residues = [k \in 1..Len(kept) |-> Shift(kept[k])]]]

\* Frame::set_topology(topology): Error when the sizes differ
FrameSetTopology(f, top) ==
    IF Len(top.atoms) # Len(f.positions)
    THEN [ok |-> FALSE, err |-> "Error", frame |-> f]
    ELSE [ok |-> TRUE, err |-> "",
          frame |-> [f EXCEPT !.atoms = top.atoms, !.residues = top.residues]]

\* Frame::set_cell(cell)
FrameSetCell(f, cell) == [f EXCEPT !.cell = cell]

\* Frame::set_step(step)
FrameSetStep(f, s) == [f EXCEPT !.step = s]

\* Frame::set(name, value): replaces a property of the same name
FrameSet(f, key, value) ==
    [f EXCEPT !.props = {p \in @ : p[1] # key} \cup {<<key, value>>}]

\* Frame::get(name)
FrameHas(f, key) == \E p \in f.props : p[1] = key

FrameGet(f, key) == (CHOOSE p \in f.props : p[1] = key)[2]

\* Frame::add_residue(residue) (Topology::add_residue)
FrameAddResidue(f, r) == [f EXCEPT !.residues = Append(@, r)]

\* Topology::residue_for_atom(i): the residue holding atom i, if any
HasResidueForAtom(f, i) == \E k \in 1..Len(f.residues) : i \in f.residues[k].atoms

ResidueForAtom(f, i) ==
    f.residues[CHOOSE k \in 1..Len(f.residues) :
                  /\ i \in f.residues[k].atoms
                  /\ \A j \in 1..(k - 1) : i \notin f.residues[j].atoms]

(***************************************************************************)
(* The text file substrate: a stream st = [cursor, eofbit] over the lines  *)
(* of a file f                                                             *)
(***************************************************************************)

\* what() of the FileError a read at the end of the file raises
FileErrorMsg == "<file error: end of file>"

\* what() of the Error parse<T> raises
ParseErrorMsg == "<parse error>"

\* TextFile::readline(): the next line, or FileError at the end of the file
ReadLine(f, st) ==
    IF st.cursor < Len(f)
    THEN [ok |-> TRUE, line |-> f[st.cursor + 1],
          st |-> [st EXCEPT !.cursor = @ + 1]]
    ELSE [ok |-> FALSE, line |-> <<>>, st |-> [st EXCEPT !.eofbit = TRUE]]

\* TextFile::readlines(n): exactly n lines, or FileError
ReadLines(f, st, n) ==
    IF st.cursor + n <= Len(f)
    THEN [ok |-> TRUE, lines |-> SubSeq(f, st.cursor + 1, st.cursor + n),
          st |-> [st EXCEPT !.cursor = @ + n]]
    ELSE [ok |-> FALSE, lines |-> <<>>, st |-> [cursor |-> Len(f), eofbit |-> TRUE]]

\* TextFile::seekg(position)
SeekG(st, p) == [cursor |-> p, eofbit |-> FALSE]

\* TextFile::rewind()
Rewind(st) == SeekG(st, 0)

(***************************************************************************)
(* GROFormat: construction                                                 *)
(*                                                                         *)
(* A function of the source is written as a chain of definitions, one per  *)
(* statement that can end it: each takes the result of the statement       *)
(* before it and either ends the function or goes on to the next.          *)
(***************************************************************************)

\* forward(file), after readlines(natoms + 1)
ForwardLines(r3) ==
    IF ~r3.ok THEN [res |-> "throw", st |-> r3.st]
    ELSE [res |-> "true", st |-> r3.st]

\* a forward that skips the atom lines and forgets the box line
ForwardNatomsNoBox(f, st, n) ==
    IF ~n.ok THEN [res |-> "false", st |-> st]
    ELSE ForwardLines(ReadLines(f, st, n.v))

\* forward(file), after natoms = parse<size_t>(...)
ForwardNatoms(f, st, n) ==
    IF ~n.ok THEN [res |-> "false", st |-> st]
    ELSE ForwardLines(ReadLines(f, st, n.v + 1))

\* forward(file), after the second readline()
ForwardCount(f, r2) ==
    IF ~r2.ok THEN [res |-> "false", st |-> r2.st]
    ELSE ForwardNatoms(f, r2.st, ParseSizeT(r2.line))

\* a forward whose first readline() fails at the end of the file and leaves
\* the stream without its eofbit
ForwardTitleNoEof(f, r1) ==
    IF ~r1.ok THEN [res |-> "false", st |-> [r1.st EXCEPT !.eofbit = FALSE]]
    ELSE ForwardCount(f, ReadLine(f, r1.st))

\* forward(file), after the first readline()
ForwardTitle(f, r1) ==
    IF ~r1.ok THEN [res |-> "false", st |-> r1.st]
    ELSE ForwardCount(f, ReadLine(f, r1.st))

\* forward(file): skip one step.  "true": a step was skipped, "false": the
\* file holds no further step here, "throw": format_error (not enough lines)
forward(f, st) ==
    IF st.eofbit THEN [res |-> "false", st |-> st]
    ELSE ForwardTitle(f, ReadLine(f, st))

\* the loop of GROFormat::GROFormat: while (!file_->eof()) { position =
\* tellg(); if (forward(*file_)) steps_positions_.push_back(position); }
RECURSIVE ScanSteps(_, _, _)
RECURSIVE ScanNext(_, _, _, _)
ScanSteps(f, st, acc) ==
    IF st.eofbit THEN [ok |-> TRUE, positions |-> acc, st |-> st]
    ELSE ScanNext(f, st.cursor, acc, forward(f, st))

\* the body of the loop after forward() returned r from the position tellg() gave
ScanNext(f, position, acc, r) ==
    IF r.res = "throw" THEN [ok |-> FALSE, positions |-> acc, st |-> r.st]
    ELSE ScanSteps(f, r.st, IF r.res = "true" THEN Append(acc, position) ELSE acc)

\* a constructor that leaves the stream where the scan ended
ConstructedNoRewind(r) ==
    IF r.ok THEN [ok |-> TRUE, positions |-> r.positions, st |-> r.st]
    ELSE [ok |-> FALSE, positions |-> <<>>, st |-> r.st]

\* the end of GROFormat::GROFormat: file_->rewind() after the scan, or the
\* format_error of forward
Constructed(r) ==
    IF r.ok THEN [ok |-> TRUE, positions |-> r.positions, st |-> Rewind(r.st)]
    ELSE [ok |-> FALSE, positions |-> <<>>, st |-> r.st]

\* GROFormat::GROFormat: the scan from the start of the file, then rewind()
GROFormatNew(f) == Constructed(ScanSteps(f, [cursor |-> 0, eofbit |-> FALSE], <<>>))

(***************************************************************************)
(* GROFormat::read                                                         *)
(***************************************************************************)

ReadPrefix == "can not read next step as GRO: "

\* the message of the format_error of an atom line that is too short (the
\* line it quotes is left out)
AtomLineTooSmall == "GRO Atom line is too small: "

\* a read that ends with an error: its kind and message, and the frame, the
\* stream and the residues_ map it leaves behind
Failed(kind, msg, f, st, res) ==
    [status |-> kind, msg |-> msg, frame |-> f, st |-> st, residues |-> res]

\* one atom line that ends with an error
FailedLine(kind, msg, f, res) ==
    [status |-> kind, msg |-> msg, frame |-> f, residues |-> res]

\* the position or velocity in memory of three columns of the file (nm to
\* angstrom)
Times10(x, y, z) == <<x.v * 10, y.v * 10, z.v * 10>>

\* a map that takes every atom line for the first of its residue
WithAtomAlone(res, resid, resname, i) ==
    IF ~resid.ok THEN res
    ELSE res \cup {ResidueAddAtom(Residue(resname, resid.v), i)}

\* residues_ after the atom with index i was read with the residue id resid
\* (an optional value) and the residue name resname
WithAtom(res, resid, resname, i) ==
    IF ~resid.ok THEN res
    ELSE IF \A r \in res : r.id # resid.v
    THEN res \cup {ResidueAddAtom(Residue(resname, resid.v), i)}
    ELSE {IF r.id = resid.v THEN ResidueAddAtom(r, i) ELSE r : r \in res}

\* the loop body after frame.add_atom gave f1: the residue of the new atom
ReadAtomResidue(line, f1, res) ==
    [status |-> "ok", msg |-> <<>>, frame |-> f1,
     residues |-> WithAtom(res, ParseSizeT(Substr(line, 0, 5)),
                           Trim(Substr(line, 5, 5)), FrameSize(f1) - 1)]

\* whether the number parse<double> reads in s has a minus sign
Minus(s) == LStrip(s) # <<>> /\ Head(LStrip(s)) = "-"

\* the minus signs of the position columns, and of the velocity columns of a
\* line that has them (a velocity that was not parsed is Vector3D(), zeros)
ColumnSigns(line) ==
    [k \in 1..6 |-> (k <= 3 \/ Len(line) >= 68) /\ Minus(Substr(line, 12 + 8 * k, 8))]

\* frame.add_atom of the numbers parsed from line
AddParsedAtom(f, line, pos, vel) ==
    [FrameAddAtom(f, Trim(Substr(line, 10, 5)), pos, vel)
        EXCEPT !.parsed[Len(f.parsed) + 1] = ColumnSigns(line)]

\* the loop body after the velocity columns were parsed
ReadAtomVelocity(line, f, res, pos, vx, vy, vz) ==
    IF ~vx.ok \/ ~vy.ok \/ ~vz.ok THEN FailedLine("Error", <<ParseErrorMsg>>, f, res)
    ELSE ReadAtomResidue(line, AddParsedAtom(f, line, pos, Times10(vx, vy, vz)), res)

\* the loop body after the position columns were parsed
ReadAtomPosition(line, f, res, x, y, z) ==
    IF ~x.ok \/ ~y.ok \/ ~z.ok THEN FailedLine("Error", <<ParseErrorMsg>>, f, res)
    ELSE IF Len(line) >= 68
    THEN ReadAtomVelocity(line, f, res, Times10(x, y, z),
                          ParseDouble(Substr(line, 44, 8)), ParseDouble(Substr(line, 52, 8)),
                          ParseDouble(Substr(line, 60, 8)))
    ELSE ReadAtomResidue(line, AddParsedAtom(f, line, Times10(x, y, z), Zero3), res)

\* the body of the loop over the atom lines, for one line: the frame and the
\* residues_ map after it, or the error it throws
ReadAtomLine(line, f, res) ==
    IF Len(line) < 44 THEN FailedLine("FormatError", <<AtomLineTooSmall>>, f, res)
    ELSE ReadAtomPosition(line, f, res, ParseDouble(Substr(line, 20, 8)),
                          ParseDouble(Substr(line, 28, 8)), ParseDouble(Substr(line, 36, 8)))

\* the loop over the atom lines
RECURSIVE ReadAtomLines(_, _, _)
RECURSIVE ReadAtomNext(_, _)
ReadAtomLines(lines, f, res) ==
    IF lines = <<>> THEN [status |-> "ok", msg |-> <<>>, frame |-> f, residues |-> res]
    ELSE ReadAtomNext(Tail(lines), ReadAtomLine(Head(lines), f, res))

\* the loop after one line gave r: an error ends it
ReadAtomNext(rest, r) ==
    IF r.status # "ok" THEN r ELSE ReadAtomLines(rest, r.frame, r.residues)

\* the box line once its values are parsed: the cell is set, or parse throws
ReadBoxCell(f, ok, cell) ==
    IF ok THEN [status |-> "ok", msg |-> <<>>, frame |-> FrameSetCell(f, cell)]
    ELSE [status |-> "Error", msg |-> <<ParseErrorMsg>>, frame |-> f]

\* a box line of three values
ReadBox3(f, a, b, c) ==
    ReadBoxCell(f, a.ok /\ b.ok /\ c.ok, OrthoCell(a.v * 10, b.v * 10, c.v * 10))

\* the message of assert(parse<double>(box_values[k - 1]) == 0), k = 4, 5, 7
BoxAssertMsg(k) ==
    IF k = 4 THEN "Assertion `parse<double>(box_values[3]) == 0' failed"
    ELSE IF k = 5 THEN "Assertion `parse<double>(box_values[4]) == 0' failed"
    ELSE "Assertion `parse<double>(box_values[6]) == 0' failed"

\* how the statement on the k-th value s of a nine-value box line ends:
\* parse<double> throws; or the value is one of the three under
\* assert(... == 0), is not zero (one of its digits is not 0), and abort()
\* ends the process; or the statement passes
BoxStage(k, s) ==
    IF ~ParseDouble(s).ok THEN "Error"
    ELSE IF k \in {4, 5, 7} /\ \E j \in 1..Len(s) : IsDigit(s[j]) /\ s[j] # "0" THEN "abort"
    ELSE "ok"

\* the box line stopped by the statement on its k-th value: the cell is not
\* set
ReadBoxStopped(f, k, stage) ==
    IF stage = "abort"
    THEN [status |-> "abort", msg |-> <<BoxAssertMsg(k)>>, frame |-> f]
    ELSE [status |-> "Error", msg |-> <<ParseErrorMsg>>, frame |-> f]

\* the first of the nine statements that does not pass
BoxFirstStop(v) ==
    CHOOSE k \in 1..9 : /\ BoxStage(k, v[k]) # "ok"
                        /\ \A j \in 1..(k - 1) : BoxStage(j, v[j]) = "ok"

\* a box line of the nine values v: the statements run in the order of the
\* values, and the first that does not pass ends the read
ReadBox9(f, v) ==
    IF \E k \in 1..9 : BoxStage(k, v[k]) # "ok"
    THEN ReadBoxStopped(f, BoxFirstStop(v), BoxStage(BoxFirstStop(v), v[BoxFirstStop(v)]))
    ELSE ReadBoxCell(f, TRUE, MatrixCell(ParseDouble(v[1]).v * 10, ParseDouble(v[2]).v * 10,
                                         ParseDouble(v[3]).v * 10, ParseDouble(v[6]).v * 10,
                                         ParseDouble(v[8]).v * 10, ParseDouble(v[9]).v * 10))

\* the box line split into the values v
ReadBoxValues(v, f) ==
    IF Len(v) = 3
    THEN ReadBox3(f, ParseDouble(v[1]), ParseDouble(v[2]), ParseDouble(v[3]))
    ELSE IF Len(v) = 9
    THEN ReadBox9(f, v)
    ELSE [status |-> "ok", msg |-> <<>>, frame |-> f]

\* the box line: the frame after it, or the error it throws
ReadBox(box, f) == ReadBoxValues(Split(box), f)

\* for (auto& residue: residues_) frame.add_residue(residue.second): the map
\* is walked by increasing residue id
RECURSIVE AddResidues(_, _)
RECURSIVE AddResidue(_, _, _)
AddResidues(f, res) ==
    IF res = {} THEN f
    ELSE AddResidue(f, res, CHOOSE r \in res : \A q \in res : r.id <= q.id)

AddResidue(f, res, r) == AddResidues(FrameAddResidue(f, r), res \ {r})

\* GROFormat::read, after the box line
ReadEnd(res, st, b) ==
    IF b.status # "ok" THEN Failed(b.status, b.msg, b.frame, st, res)
    ELSE [status |-> "ok", msg |-> <<>>, frame |-> AddResidues(b.frame, res),
          st |-> st, residues |-> res]

\* GROFormat::read, after the loop over the atom lines
ReadBoxLine(a, r4) ==
    IF ~r4.ok THEN Failed("FileError", <<FileErrorMsg>>, a.frame, r4.st, a.residues)
    ELSE ReadEnd(a.residues, r4.st, ReadBox(r4.line, a.frame))

\* GROFormat::read, the loop over the atom lines
ReadAfterAtoms(f, st, a) ==
    IF a.status # "ok" THEN Failed(a.status, a.msg, a.frame, st, a.residues)
    ELSE ReadBoxLine(a, ReadLine(f, st))

\* GROFormat::read, after file_->readlines(natoms)
ReadAtoms(f, f2, r3) ==
    IF ~r3.ok THEN Failed("FileError", <<FileErrorMsg>>, f2, r3.st, {})
    ELSE ReadAfterAtoms(f, r3.st, ReadAtomLines(r3.lines, f2, {}))

\* GROFormat::read, after natoms = parse<size_t>(...): residues_.clear(),
\* frame.add_velocities(), frame.reserve(natoms), frame.resize(0)
ReadNatoms(f, f1, res, st, n) ==
    IF ~n.ok THEN Failed("FormatError", <<ReadPrefix, ParseErrorMsg>>, f1, st, res)
    ELSE ReadAtoms(f, FrameResize(FrameReserve(FrameAddVelocities(f1), n.v), 0),
                   ReadLines(f, st, n.v))

\* GROFormat::read, after the readline() of the line of the atom count
ReadCount(f, f1, res, r2) ==
    IF ~r2.ok THEN Failed("FormatError", <<ReadPrefix, FileErrorMsg>>, f1, r2.st, res)
    ELSE ReadNatoms(f, f1, res, r2.st, ParseSizeT(r2.line))

\* GROFormat::read, after the readline() of the title: the catch turns the
\* FileError into a format_error, else frame.set("name", title)
ReadTitle(f, fr, res, r1) ==
    IF ~r1.ok THEN Failed("FormatError", <<ReadPrefix, FileErrorMsg>>, fr, r1.st, res)
    ELSE ReadCount(f, FrameSet(fr, "name", r1.line), res, ReadLine(f, r1.st))

\* GROFormat::read(frame) on the stream st with the map residues_ = res: how
\* it ends (status "ok" or the kind of the error thrown, with its message),
\* and the frame, the stream and the map it leaves
GROFormatRead(f, st, fr, res) == ReadTitle(f, fr, res, ReadLine(f, st))

\* a read_step that seeks to the entry before the one asked for
GROFormatReadStepBefore(f, positions, step, fr, res) ==
    GROFormatRead(f, SeekG([cursor |-> 0, eofbit |-> FALSE],
                           positions[IF step = 0 THEN 1 ELSE step]), fr, res)

\* GROFormat::read_step(step, frame), for step < steps_positions_.size()
GROFormatReadStep(f, positions, step, fr, res) ==
    GROFormatRead(f, SeekG([cursor |-> 0, eofbit |-> FALSE], positions[step + 1]), fr, res)

(***************************************************************************)
(* GROFormat::write                                                        *)
(***************************************************************************)

GroMaxIndex == 99999

GroMaxResid == 99999

DefaultTitle ==
    <<"G", "R", "O", " ", "F", "i", "l", "e", " ", "p", "r", "o", "d", "u", "c", "e", "d",
      " ", "b", "y", " ", "c", "h", "e", "m", "f", "i", "l", "e", "s">>

Stars == <<"*", "*", "*", "*", "*">>

WarnIndex == "Too many atoms for GRO format, removing atomic id"

WarnResid == "Too many residues for GRO format, removing residue id"

\* the warning of a residue name of more than five characters (the name it
\* quotes is left out)
WarnResname == "Residue has a name too long for GRO format, it will be truncated."

\* what() of the format_error of check_values_size(values, 8, context)
TooBigMsg(context) == <<"value in ", context, " is too big for representation in GRO format">>

\* a to_gro_index that lets the index 100000 through
to_gro_index_late(i) ==
    IF i > GroMaxIndex THEN [text |-> Stars, warn |-> {WarnIndex}]
    ELSE [text |-> NatToStr(i + 1), warn |-> {}]

\* to_gro_index(i): the text of the index column of atom i, and its warning
to_gro_index(i) ==
    IF i >= GroMaxIndex THEN [text |-> Stars, warn |-> {WarnIndex}]
    ELSE [text |-> NatToStr(i + 1), warn |-> {}]

\* the loop that computes max_resid from the residues of the topology
RECURSIVE MaxResid(_, _)
MaxResid(residues, cur) ==
    IF residues = <<>> THEN cur
    ELSE IF Head(residues).has_id /\ Head(residues).id > cur
         THEN MaxResid(Tail(residues), Head(residues).id + 1)
         ELSE MaxResid(Tail(residues), cur)

\* check_values_size(values, 8, context) on the vector v, whose entries count
\* 10^-e units: TRUE when a value is above 10^8 - 1 or below -10^7 + 1
ValuesTooBig(v, e) ==
    LET Above(x, lim) == \/ x \div Pow10(e) > lim
                         \/ x \div Pow10(e) = lim /\ x % Pow10(e) > 0
    IN  \E k \in 1..3 :
            \/ v[k] > 0 /\ Above(v[k], 99999999)
            \/ v[k] < 0 /\ Above(0 - v[k], 9999999)

\* frame.topology().residue_for_atom(i), an optional residue
ResidueOf(fr, i) ==
    IF HasResidueForAtom(fr, i) THEN [has |-> TRUE, r |-> ResidueForAtom(fr, i)]
    ELSE [has |-> FALSE, r |-> ResidueNoId(<<>>)]

\* the residue name column of an atom whose residue is the optional o, and
\* the warning sent for it
Resname(o) ==
    IF ~o.has THEN [text |-> <<"X", "X", "X", "X", "X">>, warn |-> {}]
    ELSE IF Len(o.r.name) > 5 THEN [text |-> SubSeq(o.r.name, 1, 5), warn |-> {WarnResname}]
    ELSE [text |-> o.r.name, warn |-> {}]

\* the residue id column of an atom whose residue is the optional o, the
\* warning sent for it, and max_resid after it
Resid(o, max_resid) ==
    IF o.has /\ o.r.has_id
    THEN IF o.r.id <= GroMaxResid
         THEN [text |-> NatToStr(o.r.id), warn |-> {}, max_resid |-> max_resid]
         ELSE [text |-> <<"-", "1">>, warn |-> {WarnResid}, max_resid |-> max_resid]
    ELSE [text |-> IF max_resid <= GroMaxResid THEN NatToStr(max_resid) ELSE <<"-", "1">>,
          warn |-> {}, max_resid |-> max_resid + 1]

\* the columns "{: >5}{: <5}{: >5}{: >5}{:8.3f}{:8.3f}{:8.3f}" of an atom line
\* whose position is pos / 10
AtomColumns(resid, resname, name, index, pos, sg) ==
    PadLeft(resid, 5) \o PadRight(resname, 5) \o PadLeft(name, 5) \o PadLeft(index, 5)
    \o FmtHeld(pos[1], sg, 1, 3) \o FmtHeld(pos[2], sg, 2, 3) \o FmtHeld(pos[3], sg, 3, 3)

\* the columns "{:8.4f}{:8.4f}{:8.4f}" of the velocity vel / 10
VelocityColumns(vel, sg) ==
    FmtHeld(vel[1], sg, 4, 4) \o FmtHeld(vel[2], sg, 5, 4) \o FmtHeld(vel[3], sg, 6, 4)

\* fmt::print of the line of atom i, with the index column to_gro_index gave
AtomPrint(name, rn, rid, idx, pos, has_vel, vel, sg) ==
    [status |-> "ok", msg |-> <<>>,
     line |-> AtomColumns(rid.text, rn.text, name, idx.text, pos, sg)
              \o (IF has_vel THEN VelocityColumns(vel, sg) ELSE <<>>),
     warn |-> rn.warn \cup rid.warn \cup idx.warn, max_resid |-> rid.max_resid]

\* the loop body once the residue name and id columns are known: the two
\* check_values_size, then the line is printed
AtomChecked(i, name, rn, rid, pos, has_vel, vel, sg) ==
    IF ValuesTooBig(pos, 6)
    THEN [status |-> "FormatError", msg |-> TooBigMsg("atomic position"), line |-> <<>>,
          warn |-> rn.warn \cup rid.warn, max_resid |-> rid.max_resid]
    ELSE IF has_vel /\ ValuesTooBig(vel, 6)
    THEN [status |-> "FormatError", msg |-> TooBigMsg("atomic velocity"), line |-> <<>>,
          warn |-> rn.warn \cup rid.warn, max_resid |-> rid.max_resid]
    ELSE AtomPrint(name, rn, rid, to_gro_index(i), pos, has_vel, vel, sg)

\* the body of the loop over the atoms of GROFormat::write for the atom at
\* index i: its name, its optional residue o, its position, and its velocity
\* when the frame has velocities, with the running max_resid
AtomLine(i, name, o, pos, has_vel, vel, sg, max_resid) ==
    AtomChecked(i, name, Resname(o), Resid(o, max_resid), pos, has_vel, vel, sg)

\* the loop body for atom i of the frame fr: the line printed (or the
\* format_error of check_values_size), the warnings sent and max_resid after it
WriteAtomLine(fr, i, max_resid) ==
    AtomLine(i, fr.atoms[i + 1], ResidueOf(fr, i), fr.positions[i + 1], fr.has_vel,
             IF fr.has_vel THEN fr.velocities[i + 1] ELSE Zero3, fr.parsed[i + 1],
             max_resid)

\* the loop over the atoms, from atom i on: the lines printed until the end
\* or until the first error
RECURSIVE WriteAtomLines(_, _, _, _, _)
RECURSIVE WriteAtomNext(_, _, _, _, _)
WriteAtomLines(fr, i, max_resid, lines, warns) ==
    IF i >= FrameSize(fr)
    THEN [status |-> "ok", msg |-> <<>>, lines |-> lines, warn |-> warns]
    ELSE WriteAtomNext(fr, i, lines, warns, WriteAtomLine(fr, i, max_resid))

\* the loop after the body gave r for atom i: an error ends it
WriteAtomNext(fr, i, lines, warns, r) ==
    IF r.status # "ok"
    THEN [status |-> r.status, msg |-> r.msg, lines |-> lines, warn |-> warns \cup r.warn]
    ELSE WriteAtomLines(fr, i + 1, r.max_resid, Append(lines, r.line), warns \cup r.warn)

\* "  {:8.5f}" of the cell length v / 10
BoxColumn(v) == <<" ", " ">> \o FmtFixed(v, 6, 8, 5)

\* the box line of GROFormat::write for the cell matrix entries m
WriteBoxLine(shape, m) ==
    IF shape = "ORTHORHOMBIC" \/ shape = "INFINITE"
    THEN IF ValuesTooBig(<<m[1], m[2], m[3]>>, 6)
         THEN [status |-> "FormatError", msg |-> TooBigMsg("Unit Cell"), line |-> <<>>]
         ELSE [status |-> "ok", msg |-> <<>>,
               line |-> BoxColumn(m[1]) \o BoxColumn(m[2]) \o BoxColumn(m[3])]
    ELSE IF ValuesTooBig(<<m[1], m[2], m[3]>>, 6) \/ ValuesTooBig(<<m[4], m[5], m[6]>>, 6)
         THEN [status |-> "FormatError", msg |-> TooBigMsg("Unit Cell"), line |-> <<>>]
         ELSE [status |-> "ok", msg |-> <<>>,
               line |-> BoxColumn(m[1]) \o BoxColumn(m[2]) \o BoxColumn(m[3])
                        \o <<" ", "0", ".", "0", " ", "0", ".", "0">> \o BoxColumn(m[4])
                        \o <<" ", "0", ".", "0">> \o BoxColumn(m[5]) \o BoxColumn(m[6])]

WriteBox(cell) == WriteBoxLine(cell.shape, cell.m)

\* the end of GROFormat::write on the file f that holds the title, the count
\* and the atom lines: the box line, then steps_positions_.push_back(tellg())
WriteEnd(f, positions, warns, b) ==
    IF b.status # "ok"
    THEN [status |-> b.status, msg |-> b.msg, file |-> f, warn |-> warns,
          positions |-> positions]
    ELSE [status |-> "ok", msg |-> <<>>, file |-> Append(f, b.line), warn |-> warns,
          positions |-> Append(positions, Len(f) + 1)]

\* GROFormat::write after the loop over the atoms gave a
WriteAtoms(f, positions, a, cell) ==
    IF a.status # "ok"
    THEN [status |-> a.status, msg |-> a.msg, file |-> f \o a.lines, warn |-> a.warn,
          positions |-> positions]
    ELSE WriteEnd(f \o a.lines, positions, a.warn, WriteBox(cell))

\* the title line of GROFormat::write
WriteTitle(fr) == IF FrameHas(fr, "name") THEN FrameGet(fr, "name") ELSE DefaultTitle

\* GROFormat::write(frame) at the end of the file f: how it ends, the file
\* after it, the warnings sent, and steps_positions_ after it
GROFormatWrite(f, positions, fr) ==
    WriteAtoms(f \o <<WriteTitle(fr), PadLeft(NatToStr(FrameSize(fr)), 5)>>, positions,
               WriteAtomLines(fr, 0, MaxResid(fr.residues, 1), <<>>, {}), fr.cell)

(***************************************************************************)
(* Bounds and inputs                                                       *)
(***************************************************************************)

\* the largest number of atoms of a frame built through the Frame operations
MaxFrameAtoms == 3

\* the largest number of pieces (steps, junk, a truncated tail) of a file read
MaxChunks == 3

\* the largest number of frames written to a file
MaxWrites == 2

nO == <<"O">>

nH == <<"H">>

rWAT == <<"W", "A", "T">>

rSOL == <<"S", "O", "L">>

rLONG == <<"L", "O", "N", "G", "R", "E", "S">>

tA == <<"A">>

tB == <<"B", " ", "t", "=", "1">>

tOld == <<"O", "l", "d">>

\* positions and velocities in memory (1e-5 angstrom and angstrom/ps)
P1 == <<100000, 200000, 300000>>

P2 == <<-1500000, 0, 1230000>>

V1 == <<10000, -20000, 300>>

\* an atom line of a file: the columns of the GRO format, values in 1e-5 nm
LineAtom(resid, resname, name, index, p) ==
    PadLeft(resid, 5) \o PadRight(resname, 5) \o PadLeft(name, 5) \o PadLeft(index, 5)
    \o FmtFixed(p[1], 5, 8, 3) \o FmtFixed(p[2], 5, 8, 3) \o FmtFixed(p[3], 5, 8, 3)

LineAtomVel(resid, resname, name, index, p, v) ==
    LineAtom(resid, resname, name, index, p)
    \o FmtFixed(v[1], 5, 8, 4) \o FmtFixed(v[2], 5, 8, 4) \o FmtFixed(v[3], 5, 8, 4)

LineCount(n) == PadLeft(NatToStr(n), 5)

LineBox3 == <<" ", " ", " ", "1", ".", "5", "0", "0", "0", "0", " ", " ", " ",
              "2", ".", "0", "0", "0", "0", "0", " ", " ", " ", "2", ".", "5", "0", "0", "0", "0">>

LineBox9 == <<"1", ".", "5", " ", "2", ".", "0", " ", "2", ".", "5", " ", "0", ".", "0", " ",
              "0", ".", "0", " ", "0", ".", "2", "5", " ", "0", ".", "0", " ",
              "0", ".", "5", " ", "0", ".", "7", "5">>

LineBox2 == <<"1", ".", "5", " ", "2", ".", "0">>

\* nine values, the fourth of them not zero
LineBox9Skew == <<"1", ".", "5", " ", "2", ".", "0", " ", "2", ".", "5", " ", "0", ".", "1", " ",
                  "0", ".", "0", " ", "0", ".", "2", "5", " ", "0", ".", "0", " ",
                  "0", ".", "5", " ", "0", ".", "7", "5">>

LineBoxBad == <<"1", ".", "5", " ", "x", " ", "2", ".", "5">>

LineJunk == <<"n", "o", "t", " ", "a", " ", "n", "u", "m", "b", "e", "r">>

LineShort == <<" ", " ", " ", " ", "1", "W", "A", "T", " ", " ", " ", " ", " ", " ", "O",
               " ", " ", " ", " ", "1", " ", " ", " ", "0", ".", "1", "0", "0">>

\* an atom line whose x column does not hold a number
LineBadCoord ==
    PadLeft(<<"1">>, 5) \o PadRight(rWAT, 5) \o PadLeft(nO, 5) \o PadLeft(<<"1">>, 5)
    \o PadLeft(<<"a", "b", "c">>, 8) \o FmtFixed(0, 5, 8, 3) \o FmtFixed(0, 5, 8, 3)

A1 == LineAtom(<<"1">>, rWAT, nO, <<"1">>, <<10000, 20000, 30000>>)

A2 == LineAtomVel(<<"1">>, rWAT, nO, <<"1">>, <<10000, 20000, 30000>>, <<1000, -2000, 30>>)

A3 == LineAtomVel(<<"2">>, rSOL, nH, <<"2">>, <<-150000, 0, 123000>>, <<0, 0, 0>>)

A4 == LineAtom(Stars, rWAT, nH, Stars, <<-150000, 0, 123000>>)

\* an atom line with the residue id of A1 and another residue name
A5 == LineAtom(<<"1">>, rSOL, nH, <<"3">>, <<0, 0, 0>>)

\* the pieces a file read is made of.  kind: "good" a well-formed step,
\* "nobox" a step whose box line has neither 3 nor 9 values, "bad" a step with
\* the lines its count announces but that read() rejects, "junk" two lines
\* that are no step, "trunc" a step cut short by the end of the file, "blank"
\* an empty last line
Chunks ==
    << [kind |-> "good",  natoms |-> 0, lines |-> <<tA, LineCount(0), LineBox3>>],
       [kind |-> "good",  natoms |-> 1, lines |-> <<tB, LineCount(1), A1, LineBox3>>],
       [kind |-> "good",  natoms |-> 2, lines |-> <<tA, LineCount(2), A2, A3, LineBox9>>],
       [kind |-> "good",  natoms |-> 3, lines |-> <<tB, LineCount(3), A1, A4, A5, LineBox3>>],
       [kind |-> "nobox", natoms |-> 1, lines |-> <<tA, LineCount(1), A1, LineBox2>>],
       [kind |-> "bad",   natoms |-> 1, lines |-> <<tB, LineCount(1), A1, LineBoxBad>>],
       [kind |-> "bad",   natoms |-> 1, lines |-> <<tA, LineCount(1), LineShort, LineBox3>>],
       [kind |-> "bad",   natoms |-> 2, lines |-> <<tB, LineCount(2), A1, LineBadCoord, LineBox3>>],
       [kind |-> "junk",  natoms |-> 0, lines |-> <<tA, LineJunk>>],
       [kind |-> "trunc", natoms |-> 2, lines |-> <<tB, LineCount(2), A1>>],
       [kind |-> "blank", natoms |-> 0, lines |-> << <<>> >>] >>

\* a piece that can only end a file
LastOnly(c) == Chunks[c].kind \in {"trunc", "blank"}

\* the files read: up to MaxChunks pieces, of which no two are anything but
\* well-formed steps
ChunkSeqs ==
    {cs \in UNION {[1..n -> 1..Len(Chunks)] : n \in 0..MaxChunks} :
        /\ \A k \in 1..Len(cs) : LastOnly(cs[k]) => k = Len(cs)
        /\ \A j, k \in 1..Len(cs) :
              j # k => Chunks[cs[j]].kind = "good" \/ Chunks[cs[k]].kind = "good"}

RECURSIVE FileOf(_)
FileOf(cs) == IF cs = <<>> THEN <<>> ELSE Chunks[Head(cs)].lines \o FileOf(Tail(cs))

\* where each piece starts in the file and what it is
RECURSIVE LayoutFrom(_, _)
RECURSIVE LayoutNext(_, _, _)
LayoutFrom(cs, start) ==
    IF cs = <<>> THEN <<>> ELSE LayoutNext(Tail(cs), start, Chunks[Head(cs)])

LayoutNext(rest, start, c) ==
    <<[kind |-> c.kind, natoms |-> c.natoms, start |-> start, len |-> Len(c.lines),
       title |-> c.lines[1]]>>
    \o LayoutFrom(rest, start + Len(c.lines))

\* a frame a caller holds before a read: atoms, velocities no, a residue, a
\* cell and properties of its own
UserFrame ==
    [step |-> 7, positions |-> <<P2>>, has_vel |-> FALSE, velocities |-> <<>>,
     atoms |-> <<nH>>, residues |-> <<ResidueAddAtom(Residue(rLONG, 9), 0)>>,
     cell |-> OrthoCell(1000000, 1000000, 1000000),
     props |-> {<<"name", tOld>>, <<"user", tOld>>}, parsed |-> <<<<>>>>]

\* the frames written
WriteFrames ==
    { [EmptyFrame EXCEPT !.atoms = <<nO>>, !.parsed = <<<<>>>>, !.positions = <<P1>>],
      [EmptyFrame EXCEPT !.atoms = <<nO, nH>>, !.parsed = <<<<>>, <<>>>>, !.positions = <<P1, P2>>,
                         !.has_vel = TRUE, !.velocities = <<V1, Zero3>>,
                         !.residues = <<ResidueAddAtom(Residue(rWAT, 1), 0)>>,
                         !.cell = OrthoCell(1500000, 2000000, 2500000),
                         !.props = {<<"name", tB>>}],
      [EmptyFrame EXCEPT !.atoms = <<nH>>, !.parsed = <<<<>>>>, !.positions = <<P2>>,
                         !.residues = <<ResidueAddAtom(Residue(rLONG, 100000), 0)>>,
                         !.cell = MatrixCell(1500000, 2000000, 2500000, 250000, 500000, 750000)],
      [EmptyFrame EXCEPT !.atoms = <<nO, nH>>, !.parsed = <<<<>>, <<>>>>, !.positions = <<P1, P1>>,
                         !.residues = <<ResidueAddAtom(Residue(rWAT, 99999), 0),
                                        ResidueAddAtom(ResidueNoId(rWAT), 1)>>],
      [EmptyFrame EXCEPT !.atoms = <<nO, nH>>, !.parsed = <<<<>>, <<>>>>, !.positions = <<P1, P2>>,
                         !.residues = <<ResidueAddAtom(Residue(rWAT, 5), 1),
                                        ResidueAddAtom(Residue(rWAT, 100001), 0)>>] }

\* the topologies a frame is built from or given: up to MaxFrameAtoms atoms,
\* without a residue or with one that holds the first atom
AtomSeqs == UNION {[1..n -> {nO, nH}] : n \in 0..MaxFrameAtoms}

Topologies ==
    {[atoms |-> a, residues |-> <<>>] : a \in AtomSeqs}
    \cup {[atoms |-> a, residues |-> <<ResidueAddAtom(Residue(rWAT, 1), 0)>>] :
            a \in AtomSeqs \ {<<>>}}

\* the atom indexes the index column is looked at for
IndexProbes == {0, 8, 9, 99998, 99999, 100000}

\* the optional residues of the atoms written one at a time
ProbeResidues ==
    {[has |-> FALSE, r |-> ResidueNoId(<<>>)],
     [has |-> TRUE, r |-> Residue(rWAT, 7)],
     [has |-> TRUE, r |-> ResidueNoId(rSOL)]}

\* the largest number of lines written one at a time
MaxProbeLines == 2

NoOp == [op |-> "none", arg |-> 0, status |-> "ok", msg |-> <<>>, pre |-> EmptyFrame,
         from |-> 0, to |-> 0, nth |-> 0]

\* the record of an operation: what was called and with what, how it ended,
\* the frame the caller held before it, the stream positions it started and
\* ended at, and (nth) how many read() in a row have succeeded since the
\* file was opened, -1 once anything else has happened
Done(op, arg, status, msg, pre, from, to, nth) ==
    [op |-> op, arg |-> arg, status |-> status, msg |-> msg, pre |-> pre,
     from |-> from, to |-> to, nth |-> nth]

(***************************************************************************)
(* Operations on a GROFormat (the format's own interface)                  *)
(***************************************************************************)

Stream == [cursor |-> cursor, eofbit |-> eofbit]

\* GROFormat::nsteps()
nsteps == Len(steps_positions)

\* the GROFormat after a read that ended with status: a failed assert calls
\* abort(), the process ends and no operation follows
AfterRead(status) == IF status = "abort" THEN "aborted" ELSE "yes"

\* GROFormat::GROFormat(path, mode, compression)
Open ==
    /\ opened = "no"
    /\ \E r \in {GROFormatNew(file)} :
           /\ opened' = IF r.ok THEN "yes" ELSE "failed"
           /\ steps_positions' = r.positions
           /\ cursor' = r.st.cursor
           /\ eofbit' = r.st.eofbit
           /\ step_index' = 0
           /\ done' = (r.ok /\ Len(r.positions) = 0)
           /\ last' = Done("open", 0, IF r.ok THEN "ok" ELSE "FormatError",
                           IF r.ok THEN <<>> ELSE <<"not enough lines for GRO format">>,
                           frame, 0, r.st.cursor, 0)
    /\ warnings' = {}
    /\ UNCHANGED <<frame, file, mode, elsewhere, residues_, layout>>

\* GROFormat::read(frame), reading into the frame the caller holds
Read ==
    /\ opened = "yes" /\ mode = "r"
    /\ \E r \in {GROFormatRead(file, Stream, frame, residues_)} :
           /\ frame' = r.frame
           /\ cursor' = r.st.cursor
           /\ eofbit' = r.st.eofbit
           /\ residues_' = r.residues
           /\ last' = Done("read", 0, r.status, r.msg, frame, cursor, r.st.cursor, 0)
           /\ opened' = AfterRead(r.status)
    /\ warnings' = {}
    /\ UNCHANGED <<file, mode, elsewhere, steps_positions, step_index, done, layout>>

StepAssertMsg == "Assertion `step < steps_positions_.size()' failed"

\* GROFormat::read_step(step, frame) stopped by its assert: nothing is moved
ReadStepAborted(st, fr, res) ==
    [status |-> "abort", msg |-> <<StepAssertMsg>>, frame |-> fr, st |-> st, residues |-> res]

\* GROFormat::read_step(step, frame): the assert on step, then the seek to the
\* recorded position and read()
ReadStep(step) ==
    /\ opened = "yes" /\ mode = "r"
    /\ \E r \in {IF step < Len(steps_positions)
                 THEN GROFormatReadStep(file, steps_positions, step, frame, residues_)
                 ELSE ReadStepAborted(Stream, frame, residues_)} :
           /\ frame' = r.frame
           /\ cursor' = r.st.cursor
           /\ eofbit' = r.st.eofbit
           /\ residues_' = r.residues
           /\ last' = Done("read_step", step, r.status, r.msg, frame,
                           IF step < Len(steps_positions) THEN steps_positions[step + 1]
                           ELSE cursor, r.st.cursor, 0)
           /\ opened' = AfterRead(r.status)
    /\ warnings' = {}
    /\ UNCHANGED <<file, mode, elsewhere, steps_positions, step_index, done, layout>>

\* GROFormat::write(frame), of a frame fr the caller built
Write(fr) ==
    /\ opened = "yes" /\ mode = "w"
    /\ Len(layout) < MaxWrites
    /\ \E r \in {GROFormatWrite(file, steps_positions, fr)} :
           /\ file' = r.file
           /\ steps_positions' = r.positions
           /\ cursor' = Len(r.file)
           /\ warnings' = r.warn
           /\ last' = Done("write", 0, r.status, r.msg, fr, Len(file), Len(r.file), 0)
           /\ layout' = Append(layout, [kind |-> "written", natoms |-> FrameSize(fr),
                                        start |-> Len(file), len |-> Len(r.file) - Len(file),
                                        title |-> r.file[Len(file) + 1]])
    /\ frame' = fr
    /\ UNCHANGED <<mode, elsewhere, opened, eofbit, residues_, step_index, done>>

\* no GzFile, no C API call and no selection parsed yet
NothingElse == gz = <<>> /\ CAPI_LAST_ERROR = "" /\ tokens = <<>> /\ begin = 0

Idle ==
    /\ opened = "no" /\ cursor = 0 /\ eofbit = FALSE /\ steps_positions = <<>>
    /\ residues_ = {} /\ step_index = 0 /\ done = FALSE /\ last = NoOp /\ warnings = {}
    /\ NothingElse

\* a file to read, not yet opened, and the frame the caller holds; or a new
\* file to write
Init ==
    /\ Idle
    /\ \/ /\ mode = "r"
          /\ \E cs \in ChunkSeqs : file = FileOf(cs) /\ layout = LayoutFrom(cs, 0)
          /\ frame \in {EmptyFrame, UserFrame}
       \/ /\ mode = "w" /\ file = <<>> /\ layout = <<>> /\ frame = EmptyFrame

Next ==
    \/ Open
    \/ Read
    \/ \E step \in 0..(MaxChunks - 1) : ReadStep(step)
    \/ \E fr \in WriteFrames : Write(fr)

Spec == Init /\ [][Next]_vars

(***************************************************************************)
(* The Trajectory engine over a GROFormat                                  *)
(***************************************************************************)

\* Trajectory::read(): the next step, read into a new frame whose step is
\* set to the index of the step read.  The guard on step_index keeps the
\* counter within the model's bounds: no file holds more than MaxChunks steps.
TrajRead ==
    /\ opened = "yes" /\ mode = "r"
    /\ step_index <= MaxChunks
    /\ \E r \in {GROFormatRead(file, Stream, EmptyFrame, residues_)} :
        \E ok \in {r.status = "ok"} :
           /\ frame' = IF ok THEN FrameSetStep(r.frame, step_index) ELSE frame
           /\ step_index' = IF ok THEN step_index + 1 ELSE step_index
           /\ done' = IF ok /\ step_index + 1 = nsteps THEN TRUE ELSE done
           /\ cursor' = r.st.cursor
           /\ eofbit' = r.st.eofbit
           /\ residues_' = r.residues
           /\ last' = Done("read", step_index, r.status, r.msg, frame, cursor, r.st.cursor,
                           IF ok /\ last.nth >= 0 THEN last.nth + 1 ELSE -1)
           /\ opened' = AfterRead(r.status)
    /\ warnings' = {}
    /\ UNCHANGED <<file, mode, elsewhere, steps_positions, layout>>

\* Trajectory::read_step(i) for i < nsteps(): step i read into a new frame,
\* and the next step to read is i + 1.  (For i >= nsteps() the engine raises
\* an error; what else it does then is not modelled.)
TrajReadStep(i) ==
    /\ opened = "yes" /\ mode = "r"
    /\ i < nsteps
    /\ \E r \in {GROFormatReadStep(file, steps_positions, i, EmptyFrame, residues_)} :
        \E ok \in {r.status = "ok"} :
           /\ frame' = IF ok THEN FrameSetStep(r.frame, i) ELSE frame
           /\ step_index' = IF ok THEN i + 1 ELSE step_index
           /\ done' = done
           /\ cursor' = r.st.cursor
           /\ eofbit' = r.st.eofbit
           /\ residues_' = r.residues
           /\ last' = Done("read_step", i, r.status, r.msg, frame,
                           steps_positions[i + 1], r.st.cursor, -1)
           /\ opened' = AfterRead(r.status)
    /\ warnings' = {}
    /\ UNCHANGED <<file, mode, elsewhere, steps_positions, layout>>

InitTraj ==
    /\ Idle
    /\ mode = "r"
    /\ \E cs \in ChunkSeqs : file = FileOf(cs) /\ layout = LayoutFrom(cs, 0)
    /\ frame = EmptyFrame

NextTraj ==
    \/ Open
    \/ TrajRead
    \/ \E i \in 0..(MaxChunks - 1) : TrajReadStep(i)

SpecTraj == InitTraj /\ [][NextTraj]_vars

(***************************************************************************)
(* The operations of a Frame                                               *)
(***************************************************************************)

\* what a Frame operation leaves alone: there is no file
NoFile ==
    UNCHANGED <<file, mode, elsewhere, opened, cursor, eofbit, steps_positions, residues_,
                step_index, done, warnings, layout>>

FrameOp(op, arg, status) == Done(op, arg, status, <<>>, EmptyFrame, 0, 0, 0)

\* Frame(topology, cell)
Construct(top, cell) ==
    /\ frame' = FrameFromTopology(top, cell)
    /\ last' = FrameOp("construct", Len(top.atoms), "ok")
    /\ NoFile

\* frame.add_atom(atom, position, velocity)
AddAtom(name, pos, vel) ==
    /\ FrameSize(frame) < MaxFrameAtoms
    /\ frame' = FrameAddAtom(frame, name, pos, vel)
    /\ last' = FrameOp("add_atom", 0, "ok")
    /\ NoFile

\* frame.remove(i)
Remove(i) ==
    /\ \E r \in {FrameRemove(frame, i)} :
           /\ frame' = r.frame
           /\ last' = FrameOp("remove", i, IF r.ok THEN "ok" ELSE r.err)
    /\ NoFile

\* frame.resize(n)
Resize(n) ==
    /\ frame' = FrameResize(frame, n)
    /\ last' = FrameOp("resize", n, "ok")
    /\ NoFile

\* frame.reserve(n)
Reserve(n) ==
    /\ frame' = FrameReserve(frame, n)
    /\ last' = FrameOp("reserve", n, "ok")
    /\ NoFile

\* frame.add_velocities()
AddVelocities ==
    /\ frame' = FrameAddVelocities(frame)
    /\ last' = FrameOp("add_velocities", 0, "ok")
    /\ NoFile

\* frame.set_topology(topology)
SetTopology(top) ==
    /\ \E r \in {FrameSetTopology(frame, top)} :
           /\ frame' = r.frame
           /\ last' = FrameOp("set_topology", Len(top.atoms), IF r.ok THEN "ok" ELSE r.err)
    /\ NoFile

InitFrame ==
    /\ Idle
    /\ mode = "w" /\ file = <<>> /\ layout = <<>>
    /\ frame = EmptyFrame

NextFrame ==
    \/ \E top \in Topologies : Construct(top, OrthoCell(1000000, 1000000, 1000000))
    \/ \E name \in {nO, nH} : AddAtom(name, P1, V1)
    \/ \E i \in 0..MaxFrameAtoms : Remove(i)
    \/ \E n \in 0..MaxFrameAtoms : Resize(n)
    \/ \E n \in 0..MaxFrameAtoms : Reserve(n)
    \/ AddVelocities
    \/ \E top \in Topologies : SetTopology(top)

SpecFrame == InitFrame /\ [][NextFrame]_vars

(***************************************************************************)
(* The atom lines and the count line, written and read one at a time       *)
(***************************************************************************)

\* a written line is an atom line
IsAtomLine(e) == e.kind = "atom"

\* the body of the loop of GROFormat::write for the atom at index i; the line
\* goes to the end of the file and the stream is after it
WriteAtom(i, name, o, has_vel) ==
    /\ mode = "w"
    /\ Len(file) < MaxProbeLines
    /\ \E r \in {AtomLine(i, name, o, P2, has_vel, V1, <<>>, 1)} :
           /\ file' = Append(file, r.line)
           /\ warnings' = r.warn
           /\ last' = Done("write_atom", i, r.status, r.msg, frame, Len(file),
                           Len(file) + 1, 0)
           /\ layout' = Append(layout, [kind |-> "atom", natoms |-> i, start |-> Len(file),
                                        len |-> 1, title |-> name])
    /\ cursor' = Len(file) + 1
    /\ UNCHANGED <<frame, mode, elsewhere, opened, eofbit, steps_positions, residues_,
                   step_index, done>>

\* the count line of GROFormat::write for a frame of n atoms; the line goes
\* to the end of the file and the stream is after it
WriteCount(n) ==
    /\ mode = "w"
    /\ Len(file) < MaxProbeLines
    /\ file' = Append(file, PadLeft(NatToStr(n), 5))
    /\ warnings' = {}
    /\ last' = Done("write_count", n, "ok", <<>>, frame, Len(file), Len(file) + 1, 0)
    /\ layout' = Append(layout, [kind |-> "count", natoms |-> n, start |-> Len(file),
                                 len |-> 1, title |-> <<>>])
    /\ cursor' = Len(file) + 1
    /\ UNCHANGED <<frame, mode, elsewhere, opened, eofbit, steps_positions, residues_,
                   step_index, done>>

\* the step GROFormat::write leaves when its loop printed the atom lines
\* lines: the title and the count line before them, the box line of a frame
\* without a cell after them
StepAround(lines) ==
    <<DefaultTitle, PadLeft(NatToStr(Len(lines)), 5)>> \o lines
        \o <<WriteBox(InfiniteCell).line>>

\* the atom lines written, closed as a step; a GROFormat opened in read mode
\* on that file, and read(frame) into a new frame
ReadBack ==
    /\ mode = "w"
    /\ file # <<>> /\ \A k \in 1..Len(layout) : IsAtomLine(layout[k])
    /\ \E o \in {GROFormatNew(StepAround(file))} :
        \E r \in {GROFormatRead(StepAround(file), o.st, EmptyFrame, {})} :
           /\ o.ok
           /\ steps_positions' = o.positions
           /\ frame' = r.frame
           /\ cursor' = r.st.cursor
           /\ eofbit' = r.st.eofbit
           /\ residues_' = r.residues
           /\ last' = Done("read_back", Len(file), r.status, r.msg, frame, 0, r.st.cursor, 0)
           /\ opened' = AfterRead(r.status)
    /\ file' = StepAround(file)
    /\ mode' = "r"
    /\ warnings' = {}
    /\ UNCHANGED <<elsewhere, step_index, done, layout>>

InitIndex ==
    /\ Idle
    /\ mode = "w" /\ file = <<>> /\ layout = <<>>
    /\ frame = EmptyFrame

NextIndex ==
    \/ \E i \in IndexProbes, o \in ProbeResidues, has_vel \in BOOLEAN :
           WriteAtom(i, nO, o, has_vel)
    \/ \E i \in IndexProbes : WriteCount(i)
    \/ ReadBack

SpecIndex == InitIndex /\ [][NextIndex]_vars

(***************************************************************************)
(* One atom line written for any name, residue and values, and read back   *)
(***************************************************************************)

\* the atom names written: one, five and six characters
ColumnNames == {nO, <<"C", "A", "1", "2", "3">>, <<"C", "A", "L", "P", "H", "A">>}

\* the residues of the atoms written: none, a name of seven characters with
\* the largest id of the format, an id above it
ColumnResidues ==
    {[has |-> FALSE, r |-> ResidueNoId(<<>>)],
     [has |-> TRUE, r |-> Residue(rLONG, 99999)],
     [has |-> TRUE, r |-> Residue(rWAT, 100000)]}

\* the positions and velocities written (1e-5 angstrom): -15, 0, 12.3; and
\* -10000, 0, 12.3, which is -1000 nm; 0.375, -0.375, 0.125, whose tenths are
\* half-way between two values of three decimals; 0.1, -0.2, 0.003; and
\* 10000, 0, 0
ColumnPositions == {P2, <<-1000000000, 0, 1230000>>, <<37500, -37500, 12500>>}

ColumnVelocities == {V1, <<1000000000, 0, 0>>}

\* the body of the loop of GROFormat::write for an atom at index i of a new
\* file: its name, its optional residue, its position and its velocity.  The
\* size check throws before anything is printed.
WriteColumns(i, name, o, pos, has_vel, vel) ==
    /\ mode = "w"
    /\ file = <<>> /\ layout = <<>>
    /\ \E r \in {AtomLine(i, name, o, pos, has_vel, vel, <<>>, 1)} :
           /\ file' = IF r.status = "ok" THEN <<r.line>> ELSE <<>>
           /\ cursor' = IF r.status = "ok" THEN 1 ELSE 0
           /\ warnings' = r.warn
           /\ last' = Done("write_columns", i, r.status, r.msg, frame, 0,
                           IF r.status = "ok" THEN 1 ELSE 0, 0)
    /\ layout' = <<[kind |-> "atom", natoms |-> i, start |-> 0, len |-> 1, title |-> name,
                    pos |-> pos, has_vel |-> has_vel, vel |-> vel]>>
    /\ UNCHANGED <<frame, mode, elsewhere, opened, eofbit, steps_positions, residues_,
                   step_index, done>>

NextColumns ==
    \/ \E i \in {0, 100000}, name \in ColumnNames, o \in ColumnResidues,
          pos \in ColumnPositions, has_vel \in BOOLEAN, vel \in ColumnVelocities :
           WriteColumns(i, name, o, pos, has_vel, vel)
    \/ ReadBack

SpecColumns == InitIndex /\ [][NextColumns]_vars

(***************************************************************************)
(* A step read from a GRO file, written to a new file and read back        *)
(***************************************************************************)

\* the largest number of atoms of a step that is read, written and read back
MaxRoundAtoms == 2

\* the atoms of the steps read: residue id, residue name and atom name
\* columns, the position p on disk (1e-5 nm) printed with d decimals, a zero
\* being printed with a minus sign when m0, and the velocity v on disk
\* (1e-5 nm/ps, four decimals) when the line has velocity columns.  The
\* second atom has the position column -0.000; the last atom has position
\* columns of four decimals: 0.0104, -0.2046 and 0.0105 nm.
RoundAtoms ==
    { [resid |-> <<"1">>, resname |-> rWAT, name |-> nO, d |-> 3, m0 |-> FALSE,
       p |-> <<10000, 20000, 30000>>, has_v |-> FALSE, v |-> Zero3],
      [resid |-> <<"9", "9", "9", "9", "9">>, resname |-> rSOL, name |-> nH, d |-> 3,
       m0 |-> TRUE,
       p |-> <<199999900, -99999900, 0>>, has_v |-> TRUE, v |-> <<99999990, -9999990, 10>>],
      [resid |-> Stars, resname |-> rWAT, name |-> nH, d |-> 3, m0 |-> FALSE,
       p |-> <<-150000, 100, 123400>>, has_v |-> TRUE, v |-> <<0, 0, 0>>],
      [resid |-> <<"2">>, resname |-> rSOL, name |-> nO, d |-> 3, m0 |-> FALSE,
       p |-> <<-100, 99900, -50000>>, has_v |-> FALSE, v |-> Zero3],
      [resid |-> <<"3">>, resname |-> rWAT, name |-> nO, d |-> 4, m0 |-> FALSE,
       p |-> <<1040, -20460, 1050>>, has_v |-> FALSE, v |-> Zero3] }

\* the box lines of the steps read, with the values they hold (1e-5 nm, in
\* the order of the cell matrix entries) and the number of values
RoundBoxes ==
    { [line |-> LineBox3, m |-> <<150000, 200000, 250000, 0, 0, 0>>],
      [line |-> LineBox9, m |-> <<150000, 200000, 250000, 25000, 50000, 75000>>],
      [line |-> LineBox2, m |-> <<0, 0, 0, 0, 0, 0>>],
      [line |-> LineBox9Skew, m |-> <<150000, 200000, 250000, 25000, 50000, 75000>>],
      [line |-> BoxColumn(1234567800) \o BoxColumn(10) \o BoxColumn(2000000000),
       m |-> <<123456780, 1, 200000000, 0, 0, 0>>] }

\* a position column of a line of the file, eight characters with d decimals
RoundColumn(v, d, m0) ==
    IF v = 0 /\ m0 THEN PadLeft(<<"-">> \o FmtMagnitude(0, d), 8) ELSE FmtFixed(v, 5, 8, d)

\* the position columns of the line of the atom a
RoundColumns(a) ==
    RoundColumn(a.p[1], a.d, a.m0) \o RoundColumn(a.p[2], a.d, a.m0)
    \o RoundColumn(a.p[3], a.d, a.m0)

\* the atom line of the file for the atom a
RoundLine(a) ==
    PadLeft(a.resid, 5) \o PadRight(a.resname, 5) \o PadLeft(a.name, 5) \o PadLeft(<<"1">>, 5)
    \o RoundColumns(a)
    \o (IF a.has_v
        THEN FmtFixed(a.v[1], 5, 8, 4) \o FmtFixed(a.v[2], 5, 8, 4) \o FmtFixed(a.v[3], 5, 8, 4)
        ELSE <<>>)

\* the step of the file for the atoms as and the box b
RoundStep(as, b) ==
    <<tB, LineCount(Len(as))>> \o [k \in 1..Len(as) |-> RoundLine(as[k])] \o <<b.line>>

RoundInputs ==
    {[atoms |-> as, box |-> b] :
        as \in UNION {[1..n -> RoundAtoms] : n \in 0..MaxRoundAtoms}, b \in RoundBoxes}

\* a GROFormat opened in write mode on a new file, and write(frame) of the
\* frame that the read left.  The numbers written are those that read left,
\* the doubles parse<double>(column) * 10 (see EmptyFrame), so that a column
\* whose tenth is half-way between two printed values, and a column -0.000,
\* are printed as the code prints them.  The decimals of a column beyond the
\* fifth are not kept by the model's numbers.
WriteCopy ==
    /\ opened = "yes" /\ mode = "r"
    /\ last.op = "read" /\ last.status = "ok"
    /\ \E r \in {GROFormatWrite(<<>>, <<>>, frame)} :
           /\ file' = r.file
           /\ steps_positions' = r.positions
           /\ cursor' = Len(r.file)
           /\ warnings' = r.warn
           /\ last' = Done("write_copy", 0, r.status, r.msg, frame, 0, Len(r.file), 0)
    /\ mode' = "w"
    /\ UNCHANGED elsewhere
    /\ eofbit' = FALSE
    /\ residues_' = {}
    /\ UNCHANGED <<frame, opened, step_index, done, layout>>

\* a GROFormat opened in read mode on the file just written, and read(frame)
\* into a new frame
ReadCopy ==
    /\ opened = "yes" /\ mode = "w"
    /\ last.op = "write_copy" /\ last.status = "ok"
    /\ \E o \in {GROFormatNew(file)} :
        \E r \in {GROFormatRead(file, o.st, EmptyFrame, {})} :
           /\ o.ok
           /\ steps_positions' = o.positions
           /\ frame' = r.frame
           /\ cursor' = r.st.cursor
           /\ eofbit' = r.st.eofbit
           /\ residues_' = r.residues
           /\ last' = Done("read_copy", 0, r.status, r.msg, frame, 0, r.st.cursor, 0)
           /\ opened' = AfterRead(r.status)
    /\ mode' = "r"
    /\ UNCHANGED elsewhere
    /\ warnings' = {}
    /\ UNCHANGED <<file, step_index, done, layout>>

InitRound ==
    /\ Idle
    /\ mode = "r"
    /\ \E i \in RoundInputs :
          /\ file = RoundStep(i.atoms, i.box)
          /\ layout = <<i>>
    /\ frame = EmptyFrame

NextRound ==
    \/ Open
    \/ Read
    \/ WriteCopy
    \/ ReadCopy

SpecRound == InitRound /\ [][NextRound]_vars

(***************************************************************************)
(* The SDF writer and the bond graph of the frames it is given             *)
(***************************************************************************)

\* the largest number of atoms and of bonds of a frame written as SDF
MaxSdfAtoms == 3

MaxSdfBonds == 2

\* Frame() with its bond graph: the bonds as pairs <<i, j>>, i < j, in
\* ascending order, and the bond order of each at the same place in orders
SdfEmptyFrame ==
    [step |-> 0, positions |-> <<>>, has_vel |-> FALSE, velocities |-> <<>>,
     atoms |-> <<>>, residues |-> <<>>, cell |-> InfiniteCell, props |-> {},
     parsed |-> <<>>, bonds |-> <<>>, orders |-> <<>>]

\* the pair <<a, b>> comes before the pair <<c, d>>
PairBefore(p, q) == p[1] < q[1] \/ (p[1] = q[1] /\ p[2] < q[2])

\* a sequence with x put in before its element at place k
InsertAt(s, k, x) == SubSeq(s, 1, k - 1) \o <<x>> \o SubSeq(s, k, Len(s))

\* an add_bond that puts the new bond after the bonds already there
BondAppended(f, b, order) ==
    [f EXCEPT !.bonds = Append(@, b), !.orders = Append(@, order)]

\* add_bond of a new bond b = <<i, j>>, i < j: put in at its place in the
\* ascending order, its bond order at the same place
BondInserted(f, b, order) ==
    [f EXCEPT !.bonds = InsertAt(@, Cardinality({k \in 1..Len(f.bonds) :
                                                    PairBefore(f.bonds[k], b)}) + 1, b),
              !.orders = InsertAt(@, Cardinality({k \in 1..Len(f.bonds) :
                                                     PairBefore(f.bonds[k], b)}) + 1, order)]

\* Frame::add_bond(i, j, order): OutOfBounds when i or j is not an atom,
\* Error when i = j, nothing when the bond is there already
FrameAddBond(f, i, j, order) ==
    IF i >= FrameSize(f) \/ j >= FrameSize(f) THEN [ok |-> FALSE, err |-> "OutOfBounds", frame |-> f]
    ELSE IF i = j THEN [ok |-> FALSE, err |-> "Error", frame |-> f]
    ELSE IF \E k \in 1..Len(f.bonds) : f.bonds[k] = <<Min(i, j), Max(i, j)>>
    THEN [ok |-> TRUE, err |-> "", frame |-> f]
    ELSE [ok |-> TRUE, err |-> "", frame |-> BondInserted(f, <<Min(i, j), Max(i, j)>>, order)]

\* the bond orders and the code the SDF bond block holds for each
BondOrders == {"SINGLE", "DOUBLE", "TRIPLE", "AROMATIC", "UNKNOWN"}

SdfBondCode(order) ==
    IF order = "SINGLE" THEN 1
    ELSE IF order = "DOUBLE" THEN 2
    ELSE IF order = "TRIPLE" THEN 3
    ELSE IF order = "AROMATIC" THEN 4
    ELSE 8

\* "{:>3}{:>3}{:>3}  0  0  0  0": a line of the bond block
SdfBondLine(b, order) ==
    PadLeft(NatToStr(b[1] + 1), 3) \o PadLeft(NatToStr(b[2] + 1), 3)
    \o PadLeft(NatToStr(SdfBondCode(order)), 3)
    \o <<" ", " ", "0", " ", " ", "0", " ", " ", "0", " ", " ", "0">>

\* "{:>10.4f}{:>10.4f}{:>10.4f} {:<3} 0  0  0  0  0  0  0  0  0  0  0  0": a
\* line of the atom block
SdfAtomLine(type, pos) ==
    FmtFixed(pos[1], 5, 10, 4) \o FmtFixed(pos[2], 5, 10, 4) \o FmtFixed(pos[3], 5, 10, 4)
    \o <<" ">> \o PadRight(type, 3) \o <<" ", "0">>
    \o [k \in 1..33 |-> IF k % 3 = 0 THEN "0" ELSE " "]

\* "{:>3}{:>3}  0     0  0  0  0  0  0999 V2000": the counts line
SdfCountsLine(natoms, nbonds) ==
    PadLeft(NatToStr(natoms), 3) \o PadLeft(NatToStr(nbonds), 3)
    \o <<" ", " ", "0", " ", " ", " ", " ", " ", "0", " ", " ", "0", " ", " ", "0",
         " ", " ", "0", " ", " ", "0", " ", " ", "0", "9", "9", "9", " ",
         "V", "2", "0", "0", "0">>

SdfHeader(fr) ==
    << IF FrameHas(fr, "name") THEN FrameGet(fr, "name")
       ELSE <<"N", "O", "N", "A", "M", "E">>,
       <<" ", "c", "h", "e", "m", "f", "i", "l", "e", "s", "-", "l", "i", "b">>,
       <<>> >>

\* SDFFormat::write(frame) at the end of the file f: the record of the frame
SDFFormatWrite(f, fr) ==
    f \o SdfHeader(fr)
      \o <<SdfCountsLine(FrameSize(fr), Len(fr.bonds))>>
      \o [k \in 1..FrameSize(fr) |-> SdfAtomLine(fr.atoms[k].type, fr.positions[k])]
      \o [k \in 1..Len(fr.bonds) |-> SdfBondLine(fr.bonds[k], fr.orders[k])]
      \o << <<"M", " ", "E", "N", "D">>, <<"$", "$", "$", "$">> >>

\* the atoms added to a frame, by index: Atom(name, type), and the position
\* of each
SdfAtoms ==
    << [name |-> <<"A">>, type |-> <<"O">>], [name |-> <<"B">>, type |-> <<"N">>],
       [name |-> <<"C">>, type |-> <<"C">>], [name |-> <<"F">>, type |-> <<"F">>],
       [name |-> <<"M">>, type |-> <<"M", "g">>] >>

SdfPositions == <<P1, P2, P1, Zero3, P2>>

\* what the SDF operations leave alone
SdfOnly ==
    UNCHANGED <<mode, elsewhere, opened, cursor, eofbit, steps_positions, residues_, step_index,
                done, warnings>>

\* frame.add_atom(Atom(name, type), position)
SdfAddAtom(atom, pos) ==
    /\ layout = <<>>
    /\ FrameSize(frame) < MaxSdfAtoms
    /\ frame' = FrameAddAtom(frame, atom, pos, Zero3)
    /\ last' = Done("add_atom", 0, "ok", <<>>, EmptyFrame, 0, 0, 0)
    /\ UNCHANGED <<file, layout>>
    /\ SdfOnly

\* frame.add_bond(i, j, order)
SdfAddBond(i, j, order) ==
    /\ layout = <<>>
    /\ Len(frame.bonds) < MaxSdfBonds
    /\ \E r \in {FrameAddBond(frame, i, j, order)} :
           /\ frame' = r.frame
           /\ last' = Done("add_bond", 0, IF r.ok THEN "ok" ELSE r.err, <<>>, EmptyFrame,
                           0, 0, 0)
    /\ UNCHANGED <<file, layout>>
    /\ SdfOnly

\* frame.set("name", name)
SdfSetName(name) ==
    /\ layout = <<>>
    /\ ~FrameHas(frame, "name")
    /\ frame' = FrameSet(frame, "name", name)
    /\ last' = Done("set_name", 0, "ok", <<>>, EmptyFrame, 0, 0, 0)
    /\ UNCHANGED <<file, layout>>
    /\ SdfOnly

\* Trajectory::write(frame) on an SDF file: the first write of this run
SdfWrite ==
    /\ layout = <<>>
    /\ file' = SDFFormatWrite(file, frame)
    /\ last' = Done("write", 0, "ok", <<>>, EmptyFrame, Len(file), Len(file'), 0)
    /\ layout' = <<[kind |-> "sdf", before |-> file]>>
    /\ UNCHANGED frame
    /\ SdfOnly

\* a frame written to the file before this run, as in the test of the writer
SdfEarlier ==
    BondInserted(
        FrameAddAtom(FrameAddAtom(SdfEmptyFrame, SdfAtoms[1], P1, Zero3), SdfAtoms[3], P1, Zero3),
        <<0, 1>>, "DOUBLE")

\* a new SDF file, or one that holds a record already, and a new frame
InitSdf ==
    /\ Idle
    /\ mode = "w" /\ layout = <<>>
    /\ file \in {<<>>, SDFFormatWrite(<<>>, SdfEarlier)}
    /\ frame = SdfEmptyFrame

NextSdf ==
    \/ SdfAddAtom(SdfAtoms[FrameSize(frame) + 1], SdfPositions[FrameSize(frame) + 1])
    \/ \E i, j \in 0..MaxSdfAtoms, order \in BondOrders : SdfAddBond(i, j, order)
    \/ SdfSetName(tB)
    \/ SdfWrite

SpecSdf == InitSdf /\ [][NextSdf]_vars

(***************************************************************************)
(* GzFile: a gzip file read as text through a buffer                       *)
(***************************************************************************)

\* the size of the buffer the inflated bytes are read into
GzBufferSize == 4

\* the largest number of lines of a gzip file read
MaxGzLines == 3

LF == "\n"

CR == "\r"

\* GzFile(path, File::READ) on a file whose inflated bytes are data: nothing
\* inflated yet, an empty buffer
GzOpen(data) == [data |-> data, pos |-> 0, buf |-> <<>>, at |-> 0]

\* the buffer is used up: the next GzBufferSize bytes are inflated into it
GzUnderflow(g) ==
    [g EXCEPT !.buf = SubSeq(g.data, g.pos + 1, Min(g.pos + GzBufferSize, Len(g.data))),
              !.pos = Min(g.pos + GzBufferSize, Len(g.data)),
              !.at = 0]

\* std::getline on the stream: the characters up to the next line feed, which
\* is taken off the stream; at the end of the file it fails unless it took a
\* character (got)
RECURSIVE GzGetLine(_, _, _)
GzGetLine(g, acc, got) ==
    IF g.at < Len(g.buf)
    THEN IF g.buf[g.at + 1] = LF
         THEN [ok |-> TRUE, line |-> acc, g |-> [g EXCEPT !.at = @ + 1]]
         ELSE GzGetLine([g EXCEPT !.at = @ + 1], Append(acc, g.buf[g.at + 1]), TRUE)
    ELSE IF g.pos < Len(g.data) THEN GzGetLine(GzUnderflow(g), acc, got)
    ELSE [ok |-> got, line |-> acc, g |-> g]

\* the line without the carriage return it ends with
GzStripped(r) ==
    IF r.ok /\ r.line # <<>> /\ r.line[Len(r.line)] = CR
    THEN [r EXCEPT !.line = SubSeq(@, 1, Len(@) - 1)]
    ELSE r

\* GzFile::readline(): the next line, or FileError at the end of the file
GzReadLine(g) == GzStripped(GzGetLine(g, <<>>, FALSE))

\* GzFile::readlines(n): n times readline(); exactly n lines, or FileError
RECURSIVE GzReadLines(_, _, _)
RECURSIVE GzReadNext(_, _, _)
GzReadLines(g, n, acc) ==
    IF n = 0 THEN [ok |-> TRUE, lines |-> acc, g |-> g]
    ELSE GzReadNext(n, acc, GzReadLine(g))

GzReadNext(n, acc, r) ==
    IF ~r.ok THEN [ok |-> FALSE, lines |-> <<>>, g |-> r.g]
    ELSE GzReadLines(r.g, n - 1, Append(acc, r.line))

\* a rewind that keeps the buffer
GzRewindKeepBuffer(g) == [g EXCEPT !.pos = 0]

\* GzFile::rewind(): back to the first byte, the buffer dropped
GzRewind(g) == [g EXCEPT !.pos = 0, !.buf = <<>>, !.at = 0]

\* the lines of the files read and the ways a line ends
GzLines == {<<"2", "9", "7">>, <<" ", "g", "e", "n">>, <<>>, <<"O", " ", "1", ".", "5">>}

GzLineEnds == {<<LF>>, <<CR, LF>>}

RECURSIVE GzBytes(_, _)
GzBytes(lines, end) ==
    IF lines = <<>> THEN <<>> ELSE Head(lines) \o end \o GzBytes(Tail(lines), end)

\* what the GzFile operations leave alone
GzOnly ==
    UNCHANGED <<frame, file, mode, opened, eofbit, steps_positions, residues_, step_index,
                done, warnings, layout, CAPI_LAST_ERROR, tokens, begin>>

\* file.readline(); cursor counts the lines read since the start of the file
\* and last.nth tells the first and the second call after a rewind()
GzFileReadLine ==
    /\ \E r \in {GzReadLine(gz)} :
           /\ gz' = r.g
           /\ cursor' = IF r.ok THEN cursor + 1 ELSE cursor
           /\ last' = Done("readline", 1, IF r.ok THEN "ok" ELSE "FileError",
                           IF r.ok THEN <<r.line>> ELSE <<>>, EmptyFrame, cursor,
                           IF r.ok THEN cursor + 1 ELSE cursor,
                           IF last.nth \in {0, 1} THEN last.nth + 1 ELSE -1)
    /\ GzOnly

\* file.readlines(n)
GzFileReadLines(n) ==
    /\ \E r \in {GzReadLines(gz, n, <<>>)} :
           /\ gz' = r.g
           /\ cursor' = IF r.ok THEN cursor + n ELSE Len(layout)
           /\ last' = Done("readlines", n, IF r.ok THEN "ok" ELSE "FileError", r.lines,
                           EmptyFrame, cursor, IF r.ok THEN cursor + n ELSE Len(layout), -1)
    /\ GzOnly

\* file.rewind()
GzFileRewind ==
    /\ gz' = GzRewind(gz)
    /\ cursor' = 0
    /\ last' = Done("rewind", 0, "ok", <<>>, EmptyFrame, cursor, 0, 0)
    /\ GzOnly

\* a gzip file of up to MaxGzLines lines, opened for reading
InitGz ==
    /\ opened = "no" /\ cursor = 0 /\ eofbit = FALSE /\ steps_positions = <<>>
    /\ residues_ = {} /\ step_index = 0 /\ done = FALSE /\ warnings = {}
    /\ last = [NoOp EXCEPT !.nth = -1]
    /\ CAPI_LAST_ERROR = "" /\ tokens = <<>> /\ begin = 0
    /\ mode = "r" /\ frame = EmptyFrame /\ file = <<>>
    /\ \E lines \in UNION {[1..n -> GzLines] : n \in 0..MaxGzLines}, end \in GzLineEnds :
          /\ layout = lines
          /\ gz = GzOpen(GzBytes(lines, end))

NextGz ==
    \/ GzFileReadLine
    \/ \E n \in 0..MaxGzLines : GzFileReadLines(n)
    \/ GzFileRewind

SpecGz == InitGz /\ [][NextGz]_vars

(***************************************************************************)
(* The C API: the try/catch wrappers around the body of every function     *)
(***************************************************************************)

\* the class of an exception followed by its base classes, nearest first
Bases(class) ==
    IF class \in {"FileError", "MemoryError", "FormatError", "SelectionError",
                  "ConfigurationError"}
    THEN <<class, "Error", "std::runtime_error", "std::exception">>
    ELSE IF class = "Error" THEN <<"Error", "std::runtime_error", "std::exception">>
    ELSE IF class = "std::runtime_error" THEN <<"std::runtime_error", "std::exception">>
    ELSE <<class, "std::exception">>

\* catch (const exception& e) takes an exception of the class thrown
Catches(exception, thrown) == \E k \in 1..Len(Bases(thrown)) : Bases(thrown)[k] = exception

\* the handlers of a wrapper whose first handler is the one for Error
GenericFirst ==
    << [exception |-> "Error", retval |-> "CHFL_GENERIC_ERROR", warns |-> TRUE],
       [exception |-> "FileError", retval |-> "CHFL_FILE_ERROR", warns |-> TRUE],
       [exception |-> "MemoryError", retval |-> "CHFL_MEMORY_ERROR", warns |-> TRUE],
       [exception |-> "FormatError", retval |-> "CHFL_FORMAT_ERROR", warns |-> TRUE],
       [exception |-> "SelectionError", retval |-> "CHFL_SELECTION_ERROR", warns |-> TRUE],
       [exception |-> "std::exception", retval |-> "CHFL_CXX_ERROR", warns |-> FALSE] >>

\* the handlers of CHFL_ERROR_CATCH in the order they are written: the five
\* CATCH_AND_RETURN, which also send a warning, then the catch of std::exception
Handlers ==
    << [exception |-> "FileError", retval |-> "CHFL_FILE_ERROR", warns |-> TRUE],
       [exception |-> "MemoryError", retval |-> "CHFL_MEMORY_ERROR", warns |-> TRUE],
       [exception |-> "FormatError", retval |-> "CHFL_FORMAT_ERROR", warns |-> TRUE],
       [exception |-> "SelectionError", retval |-> "CHFL_SELECTION_ERROR", warns |-> TRUE],
       [exception |-> "Error", retval |-> "CHFL_GENERIC_ERROR", warns |-> TRUE],
       [exception |-> "std::exception", retval |-> "CHFL_CXX_ERROR", warns |-> FALSE] >>

\* CATCH_AND_RETURN(exception, retval), and the catch of std::exception,
\* as the handler h that took the exception e: CAPI_LAST_ERROR = e.what(),
\* a warning when the handler sends one, and the status returned
CATCH_AND_RETURN(e, last_error, h) ==
    [retval |-> h.retval, last_error |-> e.what,
     warn |-> IF h.warns THEN {e.what} ELSE {}]

\* CHFL_ERROR_CATCH(instructions) for a body that completes (thrown = FALSE)
\* or throws e: the value returned, CAPI_LAST_ERROR after it and the warning
\* sent.  An exception is taken by the first handler, in the order written,
\* whose class is the class of e or one of its bases.
CHFL_ERROR_CATCH(thrown, e, last_error) ==
    IF ~thrown THEN [retval |-> "CHFL_SUCCESS", last_error |-> last_error, warn |-> {}]
    ELSE IF \A k \in 1..Len(Handlers) : ~Catches(Handlers[k].exception, e.class)
    THEN [retval |-> "escaped", last_error |-> last_error, warn |-> {}]
    ELSE CATCH_AND_RETURN(e, last_error,
             Handlers[CHOOSE k \in 1..Len(Handlers) :
                         /\ Catches(Handlers[k].exception, e.class)
                         /\ \A j \in 1..(k - 1) : ~Catches(Handlers[j].exception, e.class)])

\* CHFL_ERROR_GOTO(instructions): the same handlers, each of which goes to
\* the error label of the function instead of returning a status
CHFL_ERROR_GOTO(thrown, e, last_error) ==
    [CHFL_ERROR_CATCH(thrown, e, last_error) EXCEPT
        !.retval = IF @ = "CHFL_SUCCESS" THEN "falls through"
                   ELSE IF @ = "escaped" THEN @ ELSE "goto error"]

\* the exceptions the body of a C API function throws
Thrown ==
    [class : {"FileError", "MemoryError", "FormatError", "SelectionError",
              "ConfigurationError", "Error", "std::runtime_error", "std::bad_alloc"},
     what : {"file not found", "bad selection", "std::bad_alloc"}]

\* what a C API call leaves alone
CapiOnly ==
    UNCHANGED <<frame, file, mode, opened, cursor, eofbit, steps_positions, residues_,
                step_index, done, gz, tokens, begin>>

\* a C API function whose body is wrapped in CHFL_ERROR_CATCH is called
CapiCatch(thrown, e) ==
    /\ \E r \in {CHFL_ERROR_CATCH(thrown, e, CAPI_LAST_ERROR)} :
           /\ CAPI_LAST_ERROR' = r.last_error
           /\ warnings' = r.warn
           /\ last' = Done("CHFL_ERROR_CATCH", 0, r.retval, <<>>, EmptyFrame, 0, 0, 0)
    /\ layout' = <<[thrown |-> thrown, e |-> e, before |-> CAPI_LAST_ERROR]>>
    /\ CapiOnly

\* a C API function whose body is wrapped in CHFL_ERROR_GOTO is called
CapiGoto(thrown, e) ==
    /\ \E r \in {CHFL_ERROR_GOTO(thrown, e, CAPI_LAST_ERROR)} :
           /\ CAPI_LAST_ERROR' = r.last_error
           /\ warnings' = r.warn
           /\ last' = Done("CHFL_ERROR_GOTO", 0, r.retval, <<>>, EmptyFrame, 0, 0, 0)
    /\ layout' = <<[thrown |-> thrown, e |-> e, before |-> CAPI_LAST_ERROR]>>
    /\ CapiOnly

InitCapi ==
    /\ Idle
    /\ mode = "r" /\ file = <<>> /\ layout = <<>> /\ frame = EmptyFrame

NextCapi ==
    \/ \E thrown \in BOOLEAN, e \in Thrown : CapiCatch(thrown, e)
    \/ \E thrown \in BOOLEAN, e \in Thrown : CapiGoto(thrown, e)

SpecCapi == InitCapi /\ [][NextCapi]_vars

(***************************************************************************)
(* The constructor of GROFormat, one iteration of its loop at a time       *)
(***************************************************************************)

\* what the constructor leaves alone
ScanOnly == UNCHANGED <<frame, file, mode, elsewhere, residues_, step_index, done, layout>>

\* TextFile::open(path, mode, compression) in the initialiser list
ScanOpen ==
    /\ opened = "no"
    /\ opened' = "scanning"
    /\ cursor' = 0 /\ eofbit' = FALSE /\ steps_positions' = <<>>
    /\ last' = Done("open", 0, "ok", <<>>, frame, 0, 0, 0)
    /\ warnings' = {}
    /\ ScanOnly

\* one iteration of while (!file_->eof()): position = tellg(), then
\* forward(*file_), which throws or tells whether position starts a step
ScanIteration ==
    /\ opened = "scanning" /\ ~eofbit
    /\ \E r \in {forward(file, Stream)} :
           /\ opened' = IF r.res = "throw" THEN "failed" ELSE "scanning"
           /\ steps_positions' = IF r.res = "true" THEN Append(steps_positions, cursor)
                                 ELSE IF r.res = "throw" THEN <<>> ELSE steps_positions
           /\ cursor' = r.st.cursor
           /\ eofbit' = r.st.eofbit
           /\ last' = Done("forward", 0, r.res, <<>>, frame, cursor, r.st.cursor, 0)
    /\ warnings' = {}
    /\ ScanOnly

\* file_->rewind() once the loop is left
ScanRewind ==
    /\ opened = "scanning" /\ eofbit
    /\ \E st \in {Rewind(Stream)} : cursor' = st.cursor /\ eofbit' = st.eofbit
    /\ opened' = "yes"
    /\ last' = Done("rewind", 0, "ok", <<>>, frame, cursor, 0, 0)
    /\ warnings' = {}
    /\ UNCHANGED steps_positions
    /\ ScanOnly

InitScan ==
    /\ Idle
    /\ mode = "r" /\ frame = EmptyFrame
    /\ \E cs \in ChunkSeqs : file = FileOf(cs) /\ layout = LayoutFrom(cs, 0)

NextScan ==
    \/ ScanOpen
    \/ ScanIteration
    \/ ScanRewind

\* the constructor runs on once called: nothing else can stop it
SpecScan == InitScan /\ [][NextScan]_vars /\ WF_vars(NextScan)

(***************************************************************************)
(* Selections: the parser of the token stream                              *)
(*                                                                         *)
(* The token iterator begin is the number of tokens before it, so *begin   *)
(* is toks[b + 1] and begin[2] is toks[b + 3]; end is Len(toks).  The      *)
(* number of a token is a double: its sign, the decimal digits of the      *)
(* integer the token was made from (the double is the one nearest to it)   *)
(* and whether the double has a fractional part.                           *)
(***************************************************************************)

\* the largest number of and, or and not of a selection parsed
MaxSelOps == 2

NoNumber == [neg |-> FALSE, digits |-> <<>>, frac |-> FALSE]

Token(type) == [type |-> type, ident |-> "", number |-> NoNumber]

Ident(name) == [type |-> "IDENT", ident |-> name, number |-> NoNumber]

Number(neg, digits, frac) ==
    [type |-> "NUM", ident |-> "", number |-> [neg |-> neg, digits |-> digits, frac |-> frac]]

\* Token::is_boolean_op and Token::is_binary_op
IsBooleanOp(t) == t.type \in {"AND", "OR", "NOT"}

IsBinaryOp(t) == t.type \in {"EQ", "NEQ", "LT", "LE", "GT", "GE"}

\* the expressions: a leaf has no args, not has one, and/or have <<lhs, rhs>>
NameExpr(name, equals) ==
    [kind |-> "name", op |-> IF equals THEN "EQ" ELSE "NEQ", val |-> <<>>, name |-> name,
     num |-> NoNumber, args |-> <<>>]

\* PositionExpr(coord, op, val) and VelocityExpr(coord, op, val): coord is X,
\* Y or Z and val the double of the token
PositionExpr(coord, op, val) ==
    [kind |-> "position", op |-> op, val |-> <<>>, name |-> coord, num |-> val, args |-> <<>>]

VelocityExpr(coord, op, val) ==
    [kind |-> "velocity", op |-> op, val |-> <<>>, name |-> coord, num |-> val, args |-> <<>>]

\* IndexExpr(op, val): val is a std::size_t, in decimal digits
IndexExpr(op, val) ==
    [kind |-> "index", op |-> op, val |-> val, name |-> "", num |-> NoNumber, args |-> <<>>]

AllExpr == [kind |-> "all", op |-> "", val |-> <<>>, name |-> "", num |-> NoNumber, args |-> <<>>]

AndExpr(lhs, rhs) ==
    [kind |-> "and", op |-> "", val |-> <<>>, name |-> "", num |-> NoNumber, args |-> <<lhs, rhs>>]

OrExpr(lhs, rhs) ==
    [kind |-> "or", op |-> "", val |-> <<>>, name |-> "", num |-> NoNumber, args |-> <<lhs, rhs>>]

NotExpr(ast) ==
    [kind |-> "not", op |-> "", val |-> <<>>, name |-> "", num |-> NoNumber, args |-> <<ast>>]

\* a parse that returns ast with the iterator at b, and one that throws a
\* ParserError with the iterator at b
Parsed(ast, b) == [ok |-> TRUE, ast |-> ast, begin |-> b, msg |-> <<>>]

ParserError(b, msg) == [ok |-> FALSE, ast |-> AllExpr, begin |-> b, msg |-> msg]

\* SIZE_MAX of a 64-bit build, in decimal digits
SizeMax == <<"1", "8", "4", "4", "6", "7", "4", "4", "0", "7", "3", "7", "0", "9", "5", "5",
             "1", "6", "1", "5">>

\* 2^53, 2^63 and 2^64 in limbs
Two53 == <<0, 0, 0, 0, 32>>

Two63 == <<0, 0, 0, 0, 0, 8>>

Two64 == <<0, 0, 0, 0, 0, 16>>

\* the integer of the decimal digits ds, in limbs
RECURSIVE BigOfDigits(_)
BigOfDigits(ds) ==
    IF ds = <<>> THEN <<>>
    ELSE BigMul(BigOfDigits(SubSeq(ds, 1, Len(ds) - 1)), 10, DigitVal(ds[Len(ds)]))

BigIsZero(b) == \A i \in 1..Len(b) : b[i] = 0

RECURSIVE DigitsOfBig(_)
DigitsOfBig(b) ==
    IF BigIsZero(b) THEN <<>>
    ELSE DigitsOfBig(BigDiv(b, 10).q) \o <<Digits[BigDiv(b, 10).r + 1]>>

\* the decimal digits of b
BigDigits(b) == IF BigIsZero(b) THEN <<"0">> ELSE DigitsOfBig(b)

\* a - b - borrow, for a >= b + borrow
RECURSIVE BigSub(_, _, _)
BigSub(a, b, borrow) ==
    IF a = <<>> THEN <<>>
    ELSE <<(4096 + Head(a) - LimbHead(b) - borrow) % 4096>>
         \o BigSub(Tail(a), LimbTail(b), IF Head(a) - LimbHead(b) - borrow < 0 THEN 1 ELSE 0)

\* the least j, from j on, for which b / 2^j is below 2^53
RECURSIVE MantissaShift(_, _)
MantissaShift(b, j) ==
    IF BigCmp(BigDiv(b, 2^j).q, Two53) < 0 THEN j ELSE MantissaShift(b, j + 1)

\* b rounded to a multiple of 2^j, ties to the even multiple
RoundedAt(b, j) == BigMul(NearestEven(BigDiv(b, 2^j), 2^j), 2^j, 0)

\* the double nearest to the integer b, for b below 2^70: b rounded to 53
\* significant bits
DoubleOfBig(b) == RoundedAt(b, MantissaShift(b, 0))

\* the instructions static_cast<std::size_t>(double) compiles to on the
\* 64-bit targets: cvttsd2si on the number or, from 2^63 on, on the number
\* less 2^63 with the top bit flipped (x86-64, SSE2, as GCC compiles it);
\* cvttsd2si on both, combined (x86-64, SSE2, as Clang compiles it); fcvtzu
\* (AArch64); vcvttsd2usi (x86-64, AVX-512)
CastBuilds == {"cvttsd2si", "cvttsd2si_or", "fcvtzu", "vcvttsd2usi"}

\* static_cast<std::size_t> of the double d (its sign neg and its magnitude
\* mag, an integer) outside 0 .. 2^64 - 1, which is undefined behaviour, on
\* the build ub: fcvtzu saturates, vcvttsd2usi gives 2^64 - 1, cvttsd2si
\* gives the two's complement of a negative number down to -2^63 and 2^63
\* otherwise, which the flip of the top bit turns into 0
CastOutcome(neg, mag, ub) ==
    IF ub = "fcvtzu" THEN (IF neg THEN <<"0">> ELSE SizeMax)
    ELSE IF ub = "vcvttsd2usi" THEN SizeMax
    ELSE IF neg
    THEN (IF BigCmp(mag, Two63) <= 0 THEN BigDigits(BigSub(Two64, mag, 0))
          ELSE BigDigits(Two63))
    ELSE IF ub = "cvttsd2si" THEN <<"0">>
    ELSE BigDigits(Two63)

\* static_cast<std::size_t> of the double of sign neg and magnitude mag
SizeCastOf(neg, mag, ub) ==
    IF BigIsZero(mag) THEN <<"0">>
    ELSE IF ~neg /\ BigCmp(mag, Two64) < 0 THEN BigDigits(mag)
    ELSE CastOutcome(neg, mag, ub)

\* static_cast<std::size_t>(begin[1].number()) of a number without a
\* fractional part, on the build ub
SizeCast(num, ub) == SizeCastOf(num.neg, DoubleOfBig(BigOfDigits(num.digits)), ub)

\* parse<NameExpr>(begin, end), for end - begin >= 3 and begin[2] the
\* identifier name
ParseNameExpr(toks, b) ==
    IF toks[b + 2].type # "IDENT" \/ toks[b + 1].type \notin {"EQ", "NEQ"}
    THEN ParserError(b, <<"Name selection must follow the pattern: 'name == {name} | name != {name}'">>)
    ELSE Parsed(NameExpr(toks[b + 2].ident, toks[b + 1].type = "EQ"), b + 3)

\* the coordinate of the identifier of a position or velocity selection
Coordinate(ident) ==
    IF ident \in {"x", "vx"} THEN "X" ELSE IF ident \in {"y", "vy"} THEN "Y" ELSE "Z"

\* parse<PositionExpr>(begin, end), for end - begin >= 3, begin[2] the
\* identifier x, y or z and *begin a binary operator
ParsePositionExpr(toks, b) ==
    IF toks[b + 2].type # "NUM"
    THEN ParserError(b, <<"Position selection can only contain number as criterium.">>)
    ELSE Parsed(PositionExpr(Coordinate(toks[b + 3].ident), toks[b + 1].type,
                             toks[b + 2].number), b + 3)

\* parse<VelocityExpr>(begin, end), for end - begin >= 3, begin[2] the
\* identifier vx, vy or vz and *begin a binary operator
ParseVelocityExpr(toks, b) ==
    IF toks[b + 2].type # "NUM"
    THEN ParserError(b, <<"Veclocity selection can only contain number as criterium.">>)
    ELSE Parsed(VelocityExpr(Coordinate(toks[b + 3].ident), toks[b + 1].type,
                             toks[b + 2].number), b + 3)

\* parse<IndexExpr>(begin, end), for end - begin >= 3, begin[2] the
\* identifier index and *begin a binary operator
ParseIndexExpr(toks, b, ub) ==
    IF toks[b + 2].type # "NUM" \/ toks[b + 2].number.frac
    THEN ParserError(b, <<"Index selection should contain an integer">>)
    ELSE Parsed(IndexExpr(toks[b + 1].type, SizeCast(toks[b + 2].number, ub)), b + 3)

RECURSIVE dispatch_parsing(_, _, _)

\* an and/or that takes its first operand for the left-hand side
BoolSwapped(name, rhs, l) ==
    IF ~l.ok
    THEN ParserError(l.begin, <<"Error in left-hand side operand to ", name, ": ">> \o l.msg)
    ELSE Parsed(IF name = "'and'" THEN AndExpr(rhs, l.ast) ELSE OrExpr(rhs, l.ast), l.begin)

\* parse<AndExpr> and parse<OrExpr>, after lhs = dispatch_parsing(begin, end)
BoolLhs(name, rhs, l) ==
    IF ~l.ok
    THEN ParserError(l.begin, <<"Error in left-hand side operand to ", name, ": ">> \o l.msg)
    ELSE Parsed(IF name = "'and'" THEN AndExpr(l.ast, rhs) ELSE OrExpr(l.ast, rhs), l.begin)

\* parse<AndExpr> and parse<OrExpr>, after rhs = dispatch_parsing(begin, end);
\* ub is the build, the same for every cast of the program
BoolRhs(name, toks, ub, r) ==
    IF ~r.ok
    THEN ParserError(r.begin, <<"Error in right-hand side operand to ", name, ": ">> \o r.msg)
    ELSE IF r.begin = Len(toks)
    THEN ParserError(r.begin, <<"Missing left-hand side operand to ", name>>)
    ELSE BoolLhs(name, r.ast, dispatch_parsing(toks, r.begin, ub))

\* parse<AndExpr> and parse<OrExpr>, after begin += 1
BoolOperands(name, toks, b, ub) ==
    IF b = Len(toks) THEN ParserError(b, <<"Missing right-hand side operand to ", name>>)
    ELSE BoolRhs(name, toks, ub, dispatch_parsing(toks, b, ub))

\* parse<AndExpr>(begin, end), for *begin the token and
ParseAndExpr(toks, b, ub) == BoolOperands("'and'", toks, b + 1, ub)

\* parse<OrExpr>(begin, end), for *begin the token or
ParseOrExpr(toks, b, ub) == BoolOperands("'or'", toks, b + 1, ub)

\* a not that lets the error of its operand through as it is
NotOperandBare(r) ==
    IF ~r.ok THEN ParserError(r.begin, r.msg)
    ELSE Parsed(NotExpr(r.ast), r.begin)

\* parse<NotExpr>, after ast = dispatch_parsing(begin, end)
NotOperand(r) ==
    IF ~r.ok THEN ParserError(r.begin, <<"Error in operand of 'not': ">> \o r.msg)
    ELSE Parsed(NotExpr(r.ast), r.begin)

\* parse<NotExpr>(begin, end), for *begin the token not
ParseNotExpr(toks, b, ub) ==
    IF b + 1 = Len(toks) THEN ParserError(b + 1, <<"Missing operand to 'not'">>)
    ELSE NotOperand(dispatch_parsing(toks, b + 1, ub))

\* dispatch_parsing(begin, end), for begin != end: the parser of the
\* expression the token *begin starts
dispatch_parsing(toks, b, ub) ==
    IF toks[b + 1].type = "AND" THEN ParseAndExpr(toks, b, ub)
    ELSE IF toks[b + 1].type = "OR" THEN ParseOrExpr(toks, b, ub)
    ELSE IF toks[b + 1].type = "NOT" THEN ParseNotExpr(toks, b, ub)
    ELSE IF IsBinaryOp(toks[b + 1])
    THEN IF Len(toks) - b < 3 \/ toks[b + 3].type # "IDENT"
         THEN ParserError(b, <<"Bad binary operator">>)
         ELSE IF toks[b + 3].ident = "name" THEN ParseNameExpr(toks, b)
         ELSE IF toks[b + 3].ident = "index" THEN ParseIndexExpr(toks, b, ub)
         ELSE IF toks[b + 3].ident \in {"x", "y", "z"} THEN ParsePositionExpr(toks, b)
         ELSE IF toks[b + 3].ident \in {"vx", "vy", "vz"} THEN ParseVelocityExpr(toks, b)
         ELSE ParserError(b, <<"Unknown operation">>)
    ELSE IF toks[b + 1].type = "IDENT" /\ toks[b + 1].ident = "all" THEN Parsed(AllExpr, b + 1)
    ELSE ParserError(b, <<"Could not parse the selection">>)

\* the selections written: the expressions, and two leaves that are not
\* expressions: the index selection of a criterion that is any number
\* (Criterion) and the selection name of a criterion that is the identifier H
\* (NoCriterion)
Criterion(op, num) ==
    [kind |-> "criterion", op |-> op, val |-> <<>>, name |-> "index", num |-> num, args |-> <<>>]

NoCriterion(op, name) ==
    [kind |-> "ident", op |-> op, val |-> <<>>, name |-> name, num |-> NoNumber, args |-> <<>>]

\* the identifier of a position or velocity selection
CoordinateIdent(kind, coord) ==
    IF kind = "position" THEN (IF coord = "X" THEN "x" ELSE IF coord = "Y" THEN "y" ELSE "z")
    ELSE (IF coord = "X" THEN "vx" ELSE IF coord = "Y" THEN "vy" ELSE "vz")

NumberToken(num) == [type |-> "NUM", ident |-> "", number |-> num]

\* the tokens the parser is given for a selection: for a leaf the operator,
\* the criterion and the identifier, or the identifier all; for and/or the
\* operator, the right-hand side and then the left-hand side; for not the
\* operator and the operand
RECURSIVE TokensOf(_)
TokensOf(ast) ==
    IF ast.kind = "index" THEN <<Token(ast.op), Number(FALSE, ast.val, FALSE), Ident("index")>>
    ELSE IF ast.kind = "name" THEN <<Token(ast.op), Ident(ast.name), Ident("name")>>
    ELSE IF ast.kind \in {"position", "velocity"}
    THEN <<Token(ast.op), NumberToken(ast.num), Ident(CoordinateIdent(ast.kind, ast.name))>>
    ELSE IF ast.kind = "criterion" THEN <<Token(ast.op), NumberToken(ast.num), Ident("index")>>
    ELSE IF ast.kind = "ident" THEN <<Token(ast.op), Ident("H"), Ident(ast.name)>>
    ELSE IF ast.kind = "all" THEN <<Ident("all")>>
    ELSE IF ast.kind = "not" THEN <<Token("NOT")>> \o TokensOf(ast.args[1])
    ELSE <<Token(IF ast.kind = "and" THEN "AND" ELSE "OR")>>
         \o TokensOf(ast.args[2]) \o TokensOf(ast.args[1])

\* 2^64 in decimal digits
Digits2p64 == <<"1", "8", "4", "4", "6", "7", "4", "4", "0", "7", "3", "7", "0", "9", "5", "5",
                "1", "6", "1", "6">>

\* the leaves of the selections of up to MaxSelOps operators: index < 3,
\* name != H and index == 2.5
SelLeaves ==
    { IndexExpr("LT", <<"3">>), NameExpr("H", FALSE),
      Criterion("EQ", [neg |-> FALSE, digits |-> <<"2">>, frac |-> TRUE]) }

\* more leaves: index >= -2, index <= 2^64, x < 2.5, vz > -1, y < H and
\* vx == H
CastLeaves ==
    { Criterion("GE", [neg |-> TRUE, digits |-> <<"2">>, frac |-> FALSE]),
      Criterion("LE", [neg |-> FALSE, digits |-> Digits2p64, frac |-> FALSE]),
      PositionExpr("X", "LT", [neg |-> FALSE, digits |-> <<"2">>, frac |-> TRUE]),
      VelocityExpr("Z", "GT", [neg |-> TRUE, digits |-> <<"1">>, frac |-> FALSE]),
      NoCriterion("LT", "y"), NoCriterion("EQ", "vx") }

\* the expressions with exactly k and, or and not
RECURSIVE SelAsts(_)
SelAsts(k) ==
    IF k = 0 THEN SelLeaves
    ELSE {NotExpr(a) : a \in SelAsts(k - 1)}
         \cup UNION {{AndExpr(l, r) : l \in SelAsts(i), r \in SelAsts(k - 1 - i)} : i \in 0..(k - 1)}
         \cup UNION {{OrExpr(l, r) : l \in SelAsts(i), r \in SelAsts(k - 1 - i)} : i \in 0..(k - 1)}

\* the selections with one of the leaves of CastLeaves: a leaf, its not, and
\* the and and the or of a leaf with a leaf or with a selection of one
\* operator, on either side
SelCastAsts ==
    CastLeaves
    \cup {NotExpr(a) : a \in CastLeaves}
    \cup UNION {{AndExpr(l, r), AndExpr(r, l), OrExpr(l, r), OrExpr(r, l)} :
                  l \in CastLeaves, r \in CastLeaves \cup SelLeaves \cup SelAsts(1)}

\* the criterion tokens of the index selections parsed on their own: the
\* numbers 0, 3, 2^64 - 2048, 2^64, 10^20, -1, -2^63, -10^20, 2.5 and -0.5,
\* each of them a double, and an identifier
SelCriteria ==
    { Number(FALSE, <<"0">>, FALSE), Number(FALSE, <<"3">>, FALSE),
      Number(FALSE, <<"1", "8", "4", "4", "6", "7", "4", "4", "0", "7", "3", "7", "0", "9",
                      "5", "4", "9", "5", "6", "8">>, FALSE),
      Number(FALSE, Digits2p64, FALSE),
      Number(FALSE, <<"1", "0", "0", "0", "0", "0", "0", "0", "0", "0", "0", "0", "0", "0",
                      "0", "0", "0", "0", "0", "0", "0">>, FALSE),
      Number(TRUE, <<"1">>, FALSE),
      Number(TRUE, <<"9", "2", "2", "3", "3", "7", "2", "0", "3", "6", "8", "5", "4", "7",
                     "7", "5", "8", "0", "8">>, FALSE),
      Number(TRUE, <<"1", "0", "0", "0", "0", "0", "0", "0", "0", "0", "0", "0", "0", "0",
                     "0", "0", "0", "0", "0", "0", "0">>, FALSE),
      Number(FALSE, <<"2">>, TRUE), Number(TRUE, <<"0">>, TRUE),
      Ident("H") }

\* what the parser leaves alone
SelOnly ==
    UNCHANGED <<frame, file, mode, opened, cursor, eofbit, steps_positions, residues_,
                step_index, done, warnings, layout, gz, CAPI_LAST_ERROR, tokens>>

\* the record of a parse: the function called, how it ended, the expression
\* returned and the iterator before and after
SelDone(op, r) ==
    [op |-> op, status |-> IF r.ok THEN "ok" ELSE "ParserError", msg |-> r.msg,
     ast |-> r.ast, from |-> begin, to |-> r.begin]

\* parse<AndExpr>(begin, end) at the token and
SelParseAnd ==
    /\ begin < Len(tokens) /\ tokens[begin + 1].type = "AND"
    /\ \E ub \in CastBuilds : \E r \in {ParseAndExpr(tokens, begin, ub)} :
           begin' = r.begin /\ last' = SelDone("and", r)
    /\ SelOnly

\* parse<OrExpr>(begin, end) at the token or
SelParseOr ==
    /\ begin < Len(tokens) /\ tokens[begin + 1].type = "OR"
    /\ \E ub \in CastBuilds : \E r \in {ParseOrExpr(tokens, begin, ub)} :
           begin' = r.begin /\ last' = SelDone("or", r)
    /\ SelOnly

\* parse<NotExpr>(begin, end) at the token not
SelParseNot ==
    /\ begin < Len(tokens) /\ tokens[begin + 1].type = "NOT"
    /\ \E ub \in CastBuilds : \E r \in {ParseNotExpr(tokens, begin, ub)} :
           begin' = r.begin /\ last' = SelDone("not", r)
    /\ SelOnly

\* parse<NameExpr>(begin, end) within what it asserts: three tokens or more,
\* the third the identifier name
SelParseName ==
    /\ Len(tokens) - begin >= 3
    /\ tokens[begin + 3] = Ident("name")
    /\ \E r \in {ParseNameExpr(tokens, begin)} :
           begin' = r.begin /\ last' = SelDone("name", r)
    /\ SelOnly

\* parse<IndexExpr>(begin, end) within what it asserts
SelParseIndex ==
    /\ Len(tokens) - begin >= 3
    /\ tokens[begin + 3] = Ident("index") /\ IsBinaryOp(tokens[begin + 1])
    /\ \E ub \in CastBuilds : \E r \in {ParseIndexExpr(tokens, begin, ub)} :
           begin' = r.begin /\ last' = SelDone("index", r)
    /\ SelOnly

\* parse<PositionExpr>(begin, end) within what it asserts
SelParsePosition ==
    /\ Len(tokens) - begin >= 3
    /\ tokens[begin + 3] \in {Ident("x"), Ident("y"), Ident("z")}
    /\ IsBinaryOp(tokens[begin + 1])
    /\ \E r \in {ParsePositionExpr(tokens, begin)} :
           begin' = r.begin /\ last' = SelDone("position", r)
    /\ SelOnly

\* parse<VelocityExpr>(begin, end) within what it asserts
SelParseVelocity ==
    /\ Len(tokens) - begin >= 3
    /\ tokens[begin + 3] \in {Ident("vx"), Ident("vy"), Ident("vz")}
    /\ IsBinaryOp(tokens[begin + 1])
    /\ \E r \in {ParseVelocityExpr(tokens, begin)} :
           begin' = r.begin /\ last' = SelDone("velocity", r)
    /\ SelOnly

\* the criterion tokens of the name selections parsed on their own: two
\* identifiers and a number
NameCriteria == {Ident("H"), Ident("O"), Number(FALSE, <<"3">>, FALSE)}

\* the token stream of a selection, whole or cut short, or of an index
\* selection or a name selection, followed or not by one more token
InitSel ==
    /\ opened = "no" /\ cursor = 0 /\ eofbit = FALSE /\ steps_positions = <<>>
    /\ residues_ = {} /\ step_index = 0 /\ done = FALSE /\ warnings = {}
    /\ last = NoOp /\ gz = <<>> /\ CAPI_LAST_ERROR = ""
    /\ mode = "r" /\ frame = EmptyFrame /\ file = <<>>
    /\ begin = 0
    /\ \E more \in {<<>>, <<Ident("all")>>} :
       \/ \E k \in 0..MaxSelOps : \E ast \in SelAsts(k) : \E n \in 1..Len(TokensOf(ast)) :
             /\ tokens = SubSeq(TokensOf(ast), 1, n) \o more
             /\ layout = <<[ast |-> ast, n |-> n]>>
       \/ \E ast \in SelCastAsts : \E n \in 1..Len(TokensOf(ast)) :
             /\ tokens = SubSeq(TokensOf(ast), 1, n) \o more
             /\ layout = <<[ast |-> ast, n |-> n]>>
       \/ \E op \in {"EQ", "NEQ", "LT", "LE", "GT", "GE"}, c \in SelCriteria :
             /\ tokens = <<Token(op), c, Ident("index")>> \o more
             /\ layout = <<[ast |-> Criterion(op, c.number), n |-> 3]>>
       \/ \E op \in {"EQ", "NEQ", "LT", "LE", "GT", "GE"}, c \in NameCriteria :
             /\ tokens = <<Token(op), c, Ident("name")>> \o more
             /\ layout = <<[ast |-> NoCriterion(op, "name"), n |-> 3]>>

NextSel ==
    \/ SelParseAnd
    \/ SelParseOr
    \/ SelParseNot
    \/ SelParseName
    \/ SelParseIndex
    \/ SelParsePosition
    \/ SelParseVelocity

SpecSel == InitSel /\ [][NextSel]_vars

(***************************************************************************)
(* The claims                                                              *)
(***************************************************************************)

\* the file read is made of well-formed steps and of nothing else
WellFormed == \A k \in 1..Len(layout) : layout[k].kind = "good"

\* the stream position right after the last step of the index
EndOfLastStep ==
    steps_positions[nsteps] + ParseSizeT(file[steps_positions[nsteps] + 2]).v + 3

\* C1: whatever Frame operations were applied, failing ones included, the
\* frame has as many positions as atoms, and as many velocities as positions
\* when it has velocities.
C1_FrameSizes ==
    /\ Len(frame.positions) = Len(frame.atoms)
    /\ frame.has_vel => Len(frame.velocities) = Len(frame.positions)

\* a set_topology of the wrong size failed on a frame of two atoms or more
\* that has velocities
C1_Witness ==
    /\ last.op = "set_topology" /\ last.status = "Error"
    /\ frame.has_vel /\ FrameSize(frame) >= 2

\* C2: on a freshly opened trajectory the k-th read() in a row that succeeds
\* after k - 1 that did starts at entry k - 1 of the index, returns the step
\* the file holds there with frame.step() = k - 1, and leaves done() true
\* exactly when k = nsteps(); done() after the opening is true only when
\* nsteps() = 0; and on a file of well-formed steps the read ends where the
\* next step starts and fails only once nsteps() reads were done.
C2_ConsecutiveReads ==
    /\ (last.op = "open" /\ opened = "yes") => (done <=> nsteps = 0)
    /\ (last.op = "read" /\ last.nth >= 1) =>
          /\ last.status = "ok"
          /\ last.nth <= nsteps
          /\ last.from = steps_positions[last.nth]
          /\ last.from = layout[last.nth].start
          /\ last.to = last.from + layout[last.nth].len
          /\ frame.step = last.nth - 1
          /\ step_index = last.nth
          /\ FrameGet(frame, "name") = layout[last.nth].title
          /\ FrameSize(frame) = layout[last.nth].natoms
          /\ done <=> last.nth = nsteps
    /\ (WellFormed /\ last.op = "read" /\ last.status # "ok") => last.arg = nsteps

\* the third read in a row returned the last step of a file of three
C2_Witness ==
    /\ last.op = "read" /\ last.nth = 3 /\ nsteps = 3 /\ done
    /\ frame.step = 2 /\ last.to = Len(file)

\* what C3 says of the state a read_step(i), i < nsteps(), leaves
C3_State ==
    (last.op = "read_step" /\ last.arg < nsteps) =>
        /\ last.from = steps_positions[last.arg + 1]
        /\ WellFormed => last.status = "ok"
        /\ last.status = "ok" =>
              /\ frame.step = last.arg
              /\ step_index = last.arg + 1
              /\ FrameGet(frame, "name") = file[last.from + 1]
              /\ FrameSize(frame) = ParseSizeT(file[last.from + 2]).v
              /\ WellFormed => /\ FrameGet(frame, "name") = layout[last.arg + 1].title
                               /\ FrameSize(frame) = layout[last.arg + 1].natoms

\* what C3 says of a read() that comes right after a read_step(i)
C3_Step ==
    (last.op = "read_step" /\ last.arg < nsteps /\ last.status = "ok" /\ last'.op = "read") =>
        /\ last'.status = "ok" =>
              /\ last.arg + 1 < nsteps
              /\ frame'.step = last.arg + 1
              /\ last'.from = steps_positions[last.arg + 2]
              /\ FrameGet(frame', "name") = file[steps_positions[last.arg + 2] + 1]
        /\ (WellFormed /\ last.arg + 1 < nsteps) => last'.status = "ok"

\* C3: whatever was read before, read_step(i) for i < nsteps() reads at
\* entry i of the index, returns the step the file holds there with
\* frame.step() = i and makes i + 1 the next step, so that a read() right
\* after it returns step i + 1; on a file of well-formed steps both succeed.
C3_ReadStep == []C3_State /\ [][C3_Step]_vars

\* read_step(0) succeeded while the caller held step 2
C3_Witness ==
    /\ last.op = "read_step" /\ last.arg = 0 /\ last.status = "ok"
    /\ last.pre.step = 2 /\ frame.step = 0 /\ step_index = 1

\* C4 as stated: the read fails with a FileError that says "no more steps"
C4_NoMoreSteps ==
    (last.op = "read" /\ nsteps >= 1 /\ last.from = EndOfLastStep) =>
        /\ last.status = "FileError"
        /\ last.msg = <<"no more steps">>

\* C6 as stated: a read that fails leaves the frame as it was before the call
C6_ReadAtomic ==
    (last.op \in {"read", "read_step"} /\ last.status # "ok") => frame = last.pre

\* the box line of the step a read consumed up to the position to
BoxValues(to) == Split(file[to])

\* an atom line of the step read between the positions from and to has
\* velocity columns
HasVelocityColumns(from, to) == \E k \in (from + 3)..(to - 1) : Len(file[k]) >= 68

\* the part of a frame C7 is about
Content(f) ==
    [has_vel |-> f.has_vel, velocities |-> f.velocities, atoms |-> f.atoms,
     residues |-> f.residues, cell |-> f.cell]

\* C7 as stated: after a successful read the velocities, atoms, residues and
\* cell of the frame are those the same step gives a new frame; the cell is
\* the infinite cell when the box line has neither 3 nor 9 values; and there
\* are no velocities when no atom line has velocity columns.
C7_ReadClears ==
    (last.op \in {"read", "read_step"} /\ last.status = "ok") =>
        /\ Content(frame) =
              Content(GROFormatRead(file, [cursor |-> last.from, eofbit |-> FALSE],
                                    EmptyFrame, {}).frame)
        /\ Len(BoxValues(last.to)) \notin {3, 9} => frame.cell = InfiniteCell
        /\ ~HasVelocityColumns(last.from, last.to) => ~frame.has_vel

\* read() called k + 1 times in a row on the stream st, each time into a new
\* frame: what the last call gives
RECURSIVE SeqRead(_, _, _, _)
RECURSIVE SeqNext(_, _, _)
SeqRead(f, st, res, k) == SeqNext(f, k, GROFormatRead(f, st, EmptyFrame, res))

SeqNext(f, k, r) ==
    IF k = 0 \/ r.status # "ok" THEN r ELSE SeqRead(f, r.st, r.residues, k - 1)

\* the frame the trajectory returns when the file is opened and read() is
\* called i + 1 times
OpenAndRead(f, i) == FrameSetStep(SeqRead(f, GROFormatNew(f).st, {}, i).frame, i)

\* C8: a file of n well-formed steps opens, its index has n entries, one at
\* the start of every step, and read_step(i) for i < n succeeds and returns
\* the frame that opening the file and calling read() i + 1 times returns.
C8_IndexAndSequential ==
    WellFormed =>
        /\ opened # "failed"
        /\ opened = "yes" =>
              /\ nsteps = Len(layout)
              /\ \A k \in 1..Len(layout) : steps_positions[k] = layout[k].start
        /\ (last.op = "read_step" /\ last.arg < nsteps) =>
              /\ last.status = "ok"
              /\ frame = OpenAndRead(file, last.arg)

\* read_step(2) succeeded on a file of three well-formed steps
C8_Witness ==
    /\ WellFormed /\ nsteps = 3
    /\ last.op = "read_step" /\ last.arg = 2 /\ last.status = "ok"
    /\ frame.step = 2

\* the index column of an atom line
IndexColumn(line) == SubSeq(line, 16, 20)

BigResidAtoms(fr) ==
    {i \in 0..(FrameSize(fr) - 1) :
        /\ HasResidueForAtom(fr, i)
        /\ ResidueForAtom(fr, i).has_id
        /\ ResidueForAtom(fr, i).id > 99999}

\* C10 as stated: the write of a frame with an atom whose residue id is above
\* 99999 succeeds, warns, and the residue id column of that atom holds *****
C10_ResidStars ==
    (last.op = "write" /\ BigResidAtoms(last.pre) # {}) =>
        /\ last.status = "ok"
        /\ WarnResid \in warnings
        /\ \A i \in BigResidAtoms(last.pre) : SubSeq(file[last.from + 3 + i], 1, 5) = Stars

\* a is within tol of b
Near(a, b, tol) == a - b <= tol /\ b - a <= tol

\* the position columns of an atom line, as parse<double> reads them (1e-5 nm)
PositionColumns(line) ==
    <<ParseDouble(Substr(line, 20, 8)).v, ParseDouble(Substr(line, 28, 8)).v,
      ParseDouble(Substr(line, 36, 8)).v>>

\* the velocity columns of an atom line, as parse<double> reads them
SpeedColumns(line) ==
    <<ParseDouble(Substr(line, 44, 8)).v, ParseDouble(Substr(line, 52, 8)).v,
      ParseDouble(Substr(line, 60, 8)).v>>

\* the box line is one of the format: of nine values, the fourth, the fifth
\* and the seventh are zero
BoxOfFormat(line) ==
    Len(Split(line)) = 9 =>
        \A k \in {4, 5, 7} : ParseDouble(Split(line)[k]) = [ok |-> TRUE, v |-> 0]

\* what C11 says of the read of the step: positions, velocities and box
\* lengths in memory are ten times the values on disk
C11_Read ==
    (last.op = "read" /\ last.from = 0 /\ BoxOfFormat(layout[1].box.line)) =>
        /\ last.status = "ok"
        /\ FrameSize(frame) = Len(layout[1].atoms)
        /\ \A i \in 1..FrameSize(frame), k \in 1..3 :
              /\ frame.positions[i][k] = 10 * layout[1].atoms[i].p[k]
              /\ frame.velocities[i][k] = 10 * layout[1].atoms[i].v[k]
        /\ \A k \in 1..6 : frame.cell.m[k] = 10 * layout[1].box.m[k]

\* what C11 says of the write of the frame read: the columns of the lines
\* written hold a tenth of the values in memory, to the precision of the format
C11_Write ==
    last.op = "write_copy" =>
        /\ last.status = "ok"
        /\ Len(file) = FrameSize(frame) + 3
        /\ \A i \in 1..FrameSize(frame), k \in 1..3 :
              /\ Near(10 * PositionColumns(file[i + 2])[k], frame.positions[i][k], 50)
              /\ Near(10 * SpeedColumns(file[i + 2])[k], frame.velocities[i][k], 5)
        /\ \A k \in 1..3 :
              Near(10 * ParseDouble(Split(file[Len(file)])[k]).v, frame.cell.m[k], 5)

\* what C11 says of the read of the step written: as many atoms, positions
\* within 5e-4 angstrom and cell lengths within 5e-5 nm of the first read
C11_ReadBack ==
    last.op = "read_copy" =>
        /\ last.status = "ok"
        /\ FrameSize(frame) = FrameSize(last.pre)
        /\ \A i \in 1..FrameSize(frame), k \in 1..3 :
              Near(frame.positions[i][k], last.pre.positions[i][k], 50)
        /\ \A k \in 1..6 : Near(frame.cell.m[k], last.pre.cell.m[k], 50)

\* C11 as stated: the read of a GRO step gives ten times the values on disk,
\* the write of that frame prints a tenth of the values in memory, and the
\* read of the step written gives as many atoms, positions within 5e-4
\* angstrom of the first read and cell lengths within 5e-5 nm, for every step
\* read.
C11_RoundTrip == C11_Read /\ C11_Write /\ C11_ReadBack

\* the three numbers a line of the SDF bond block starts with
BondFields(line) ==
    <<ParseSizeT(SubSeq(line, 1, 3)).v, ParseSizeT(SubSeq(line, 4, 6)).v,
      ParseSizeT(SubSeq(line, 7, 9)).v>>

\* the bonds of the frame fr as the bond block is to list them
BondBlock(fr) ==
    {<<fr.bonds[k][1] + 1, fr.bonds[k][2] + 1, SdfBondCode(fr.orders[k])>> :
        k \in 1..Len(fr.bonds)}

\* C12: a write of a frame of N atoms and B bonds leaves the lines the file
\* held as they were and adds one record after them: three header lines, a
\* counts line that starts with N and B, N atom lines that hold the type and
\* the position of each atom, B bond lines that are in ascending order of
\* (i, j) with i < j and list every bond of the frame once as (i + 1, j + 1,
\* code), with the code 1, 2, 3, 4 or 8 of its bond order, then M END and $$$$.
C12_SdfRecord ==
    last.op = "write" =>
        /\ SubSeq(file, 1, last.from) = layout[1].before
        /\ Len(file) = last.from + 4 + FrameSize(frame) + Len(frame.bonds) + 2
        /\ ParseSizeT(SubSeq(file[last.from + 4], 1, 3)) = [ok |-> TRUE, v |-> FrameSize(frame)]
        /\ ParseSizeT(SubSeq(file[last.from + 4], 4, 6)) = [ok |-> TRUE, v |-> Len(frame.bonds)]
        /\ \A k \in 1..FrameSize(frame) :
              /\ Trim(SubSeq(file[last.from + 4 + k], 32, 34)) = frame.atoms[k].type
              /\ \A c \in 1..3 :
                    ParseDouble(SubSeq(file[last.from + 4 + k], 10 * c - 9, 10 * c)).v
                        = frame.positions[k][c]
        /\ \A k \in 1..Len(frame.bonds) :
              LET b == BondFields(file[last.from + 4 + FrameSize(frame) + k])
              IN  /\ b[1] < b[2]
                  /\ b \in BondBlock(frame)
                  /\ k > 1 => PairBefore(
                        BondFields(file[last.from + 4 + FrameSize(frame) + k - 1]), b)
        /\ Cardinality(BondBlock(frame)) = Len(frame.bonds)
        /\ \A i, j \in 0..(FrameSize(frame) - 1) :
              (\E k \in 1..Len(frame.bonds) : frame.bonds[k] = <<i, j>>) => i < j
        /\ file[Len(file) - 1] = <<"M", " ", "E", "N", "D">>
        /\ file[Len(file)] = <<"$", "$", "$", "$">>

\* a frame of three atoms with the bonds (0, 2) and (1, 2), of unknown and
\* aromatic order, was written after a record the file held
C12_Witness ==
    /\ last.op = "write" /\ last.from > 0
    /\ FrameSize(frame) = 3
    /\ frame.bonds = <<<<0, 2>>, <<1, 2>>>>
    /\ frame.orders = <<"UNKNOWN", "AROMATIC">>

\* C13: readline() returns the line of the file right after the lines read
\* so far and fails only when none is left; readlines(n) returns the n lines
\* right after them, in the order of the file, and fails only when fewer
\* than n are left; and the first readline() after a rewind() returns the
\* first line of the file and the second one the second line, whatever was
\* read before.
C13_GzLines ==
    /\ last.op = "readline" =>
          IF last.from < Len(layout)
          THEN /\ last.status = "ok"
               /\ last.msg = <<layout[last.from + 1]>>
               /\ cursor = last.from + 1
          ELSE last.status = "FileError"
    /\ last.op = "readlines" =>
          IF last.from + last.arg <= Len(layout)
          THEN /\ last.status = "ok"
               /\ Len(last.msg) = last.arg
               /\ last.msg = SubSeq(layout, last.from + 1, last.from + last.arg)
               /\ cursor = last.from + last.arg
          ELSE last.status = "FileError"
    /\ (last.op = "readline" /\ last.nth \in {1, 2} /\ last.nth <= Len(layout)) =>
          /\ last.status = "ok"
          /\ last.msg = <<layout[last.nth]>>

\* two lines were read, the file was rewound in the middle of its buffer, and
\* the second readline() after that returned the second line of the file
C13_Witness ==
    /\ last.op = "readline" /\ last.nth = 2 /\ last.status = "ok"
    /\ Len(layout) = 3 /\ layout[1] # layout[2] /\ layout[2] # layout[3]
    /\ gz.at < Len(gz.buf) /\ gz.pos > GzBufferSize

\* the kinds of error the C API tells apart and the status of each
KindStatus ==
    [FileError |-> "CHFL_FILE_ERROR", MemoryError |-> "CHFL_MEMORY_ERROR",
     FormatError |-> "CHFL_FORMAT_ERROR", SelectionError |-> "CHFL_SELECTION_ERROR",
     Error |-> "CHFL_GENERIC_ERROR"]

\* the status C14 gives an exception of the class thrown: that of the kind
\* its class is or derives from, the nearest one first, and CHFL_CXX_ERROR
\* for an exception that is no chemfiles Error
MostSpecific(class) ==
    IF \E k \in 1..Len(Bases(class)) : Bases(class)[k] \in DOMAIN KindStatus
    THEN KindStatus[Bases(class)[CHOOSE k \in 1..Len(Bases(class)) :
                        /\ Bases(class)[k] \in DOMAIN KindStatus
                        /\ \A j \in 1..(k - 1) : Bases(class)[j] \notin DOMAIN KindStatus]]
    ELSE "CHFL_CXX_ERROR"

\* C14: a body wrapped by CHFL_ERROR_CATCH returns CHFL_SUCCESS exactly when
\* it completes, and then CAPI_LAST_ERROR is as it was; when it throws, the
\* call returns the status of the most specific kind of the exception, which
\* does not leave the wrapper, and CAPI_LAST_ERROR is its message.
C14_ErrorCatch ==
    last.op = "CHFL_ERROR_CATCH" =>
        /\ last.status = "CHFL_SUCCESS" <=> ~layout[1].thrown
        /\ ~layout[1].thrown => CAPI_LAST_ERROR = layout[1].before
        /\ layout[1].thrown =>
              /\ last.status = MostSpecific(layout[1].e.class)
              /\ CAPI_LAST_ERROR = layout[1].e.what

\* a ConfigurationError was thrown when CAPI_LAST_ERROR held the message of
\* an earlier error: CHFL_GENERIC_ERROR, the new message and a warning
C14_Witness ==
    /\ last.op = "CHFL_ERROR_CATCH" /\ layout[1].thrown
    /\ layout[1].e.class = "ConfigurationError"
    /\ layout[1].before = "file not found" /\ CAPI_LAST_ERROR = "bad selection"
    /\ last.status = "CHFL_GENERIC_ERROR" /\ warnings = {"bad selection"}

\* a selection all of whose leaves parse
RECURSIVE GoodAst(_)
GoodAst(ast) ==
    /\ ast.kind # "ident"
    /\ ast.kind = "criterion" => ~ast.num.frac
    /\ \A i \in 1..Len(ast.args) : GoodAst(ast.args[i])

\* an expression none of whose operators lacks an operand
RECURSIVE CompleteAst(_)
CompleteAst(ast) ==
    /\ Len(ast.args) = (IF ast.kind \in {"and", "or"} THEN 2 ELSE IF ast.kind = "not" THEN 1 ELSE 0)
    /\ \A i \in 1..Len(ast.args) : CompleteAst(ast.args[i])

\* the sequence msg begins with the sequence p and goes on after it
Prefixed(msg, p) == Len(msg) > Len(p) /\ SubSeq(msg, 1, Len(p)) = p

\* the number of decimal digits a is at most the number of decimal digits b
RECURSIVE DigitsLE(_, _)
DigitsLE(a, b) ==
    IF Len(a) # Len(b) THEN Len(a) < Len(b)
    ELSE IF a = <<>> THEN TRUE
    ELSE IF Head(a) # Head(b) THEN DigitVal(Head(a)) < DigitVal(Head(b))
    ELSE DigitsLE(Tail(a), Tail(b))

\* the number num is an integer of 0 .. SIZE_MAX
IsSizeT(num) ==
    ~num.frac /\ (~num.neg \/ num.digits = <<"0">>) /\ DigitsLE(num.digits, SizeMax)

\* the tokens toks are those of the expression ast, but for the numbers of
\* index selections that are no std::size_t
Spells(toks, ast) ==
    /\ Len(toks) = Len(TokensOf(ast))
    /\ \A i \in 1..Len(toks) :
          \/ toks[i] = TokensOf(ast)[i]
          \/ /\ toks[i].type = "NUM" /\ ~IsSizeT(toks[i].number)
             /\ i + 1 <= Len(toks) /\ toks[i + 1] = Ident("index")
             /\ TokensOf(ast)[i].type = "NUM"

\* the expression ast is the selection sel written, whatever index an index
\* selection holds when its criterion is no std::size_t
RECURSIVE IsAstOf(_, _)
IsAstOf(ast, sel) ==
    IF sel.kind = "criterion"
    THEN /\ ast.kind = "index" /\ ast.op = sel.op
         /\ IsSizeT(sel.num) => ast.val = sel.num.digits
    ELSE /\ ast.kind = sel.kind /\ ast.op = sel.op /\ ast.val = sel.val
         /\ ast.name = sel.name /\ ast.num = sel.num
         /\ Len(ast.args) = Len(sel.args)
         /\ \A i \in 1..Len(sel.args) : IsAstOf(ast.args[i], sel.args[i])

\* the parse recorded in last started at the first token of the stream of
\* the selection layout[1].ast, all of whose tokens are there
WholeStream ==
    /\ last.op \in {"and", "or", "not"} /\ last.from = 0
    /\ layout[1].ast.kind = last.op
    /\ layout[1].n = Len(TokensOf(layout[1].ast))

\* the parse recorded in last started at the first token of a stream that
\* holds the first layout[1].n tokens of layout[1].ast and nothing after them
CutStream ==
    /\ last.op \in {"and", "or", "not"} /\ last.from = 0
    /\ layout[1].ast.kind = last.op
    /\ Len(tokens) = layout[1].n

\* C15: parsing at and (or) consumes the operator, then the tokens of one
\* whole sub-expression, which becomes the right-hand operand, then those of
\* the next whole sub-expression, which becomes the left-hand operand, and
\* returns And(lhs, rhs) (Or(lhs, rhs)) with the iterator right after the
\* second sub-expression; not consumes the operator and one sub-expression.
C15_PrefixOperands ==
    /\ last.op \in {"and", "or"} /\ last.status = "ok" =>
          /\ last.ast.kind = last.op /\ begin = last.to
          /\ tokens[last.from + 1] = Token(IF last.op = "and" THEN "AND" ELSE "OR")
          /\ \E R \in {Len(TokensOf(last.ast.args[2]))} :
                /\ Spells(SubSeq(tokens, last.from + 2, last.from + 1 + R), last.ast.args[2])
                /\ Spells(SubSeq(tokens, last.from + 2 + R, last.to), last.ast.args[1])
    /\ last.op = "not" /\ last.status = "ok" =>
          /\ last.ast.kind = "not" /\ begin = last.to
          /\ tokens[last.from + 1] = Token("NOT")
          /\ Spells(SubSeq(tokens, last.from + 2, last.to), last.ast.args[1])
    /\ WholeStream /\ GoodAst(layout[1].ast) =>
          /\ last.status = "ok" /\ IsAstOf(last.ast, layout[1].ast)
          /\ last.to = layout[1].n

\* an and parsed from a stream that goes on after it: its right-hand operand
\* an or of two different operands, its left-hand operand the index selection
\* of -2, which holds another index
C15_Witness ==
    /\ last.op = "and" /\ last.status = "ok" /\ last.from = 0
    /\ last.ast.args[2].kind = "or" /\ last.ast.args[1].kind = "index"
    /\ last.ast.args[2].args[1] # last.ast.args[2].args[2]
    /\ tokens[10].number.neg /\ last.ast.args[1].val # tokens[10].number.digits
    /\ last.to = 11 /\ Len(tokens) = 12

\* C16: parsing and, or and not never returns an expression that lacks an
\* operand: a stream that ends right after the operator fails with the
\* missing right-hand side operand (the missing operand of not), one that
\* ends after one whole operand of and/or fails with the missing left-hand
\* side operand, and the error of an operand is raised again as a parser
\* error that begins with which operand of which operator failed.
C16_MissingOperand ==
    /\ last.op \in {"and", "or", "not"} /\ last.status = "ok" => CompleteAst(last.ast)
    /\ last.op \in {"and", "or", "not"} /\ last.status # "ok" =>
          last.status = "ParserError" /\ last.msg # <<>>
    /\ CutStream /\ last.op \in {"and", "or"} =>
          \E name \in {IF last.op = "and" THEN "'and'" ELSE "'or'"},
             R \in {Len(TokensOf(layout[1].ast.args[2]))} :
             /\ layout[1].n = 1 =>
                   /\ last.status = "ParserError"
                   /\ last.msg = <<"Missing right-hand side operand to ", name>>
             /\ \/ 1 < layout[1].n /\ layout[1].n < 1 + R
                \/ layout[1].n >= 1 + R /\ ~GoodAst(layout[1].ast.args[2])
                => /\ last.status = "ParserError"
                   /\ Prefixed(last.msg, <<"Error in right-hand side operand to ", name, ": ">>)
             /\ layout[1].n = 1 + R /\ GoodAst(layout[1].ast.args[2]) =>
                   /\ last.status = "ParserError"
                   /\ last.msg = <<"Missing left-hand side operand to ", name>>
             /\ /\ layout[1].n > 1 + R /\ GoodAst(layout[1].ast.args[2])
                /\ \/ layout[1].n < Len(TokensOf(layout[1].ast))
                   \/ ~GoodAst(layout[1].ast.args[1])
                => /\ last.status = "ParserError"
                   /\ Prefixed(last.msg, <<"Error in left-hand side operand to ", name, ": ">>)
    /\ CutStream /\ last.op = "not" =>
          /\ layout[1].n = 1 =>
                last.status = "ParserError" /\ last.msg = <<"Missing operand to 'not'">>
          /\ /\ layout[1].n > 1
             /\ \/ layout[1].n < Len(TokensOf(layout[1].ast))
                \/ ~GoodAst(layout[1].ast.args[1])
             => /\ last.status = "ParserError"
                /\ Prefixed(last.msg, <<"Error in operand of 'not': ">>)
    /\ WholeStream /\ last.op = "not" /\ layout[1].ast.args[1].kind = "criterion"
       /\ layout[1].ast.args[1].num.frac =>
          last.msg = <<"Error in operand of 'not': ", "Index selection should contain an integer">>
    /\ WholeStream /\ last.op = "not" /\ layout[1].ast.args[1] = NoCriterion("LT", "y") =>
          last.msg = <<"Error in operand of 'not': ",
                       "Position selection can only contain number as criterium.">>

\* a not whose operand is an or that lacks its left-hand side operand
C16_Witness ==
    /\ last.op = "not" /\ last.status = "ParserError" /\ last.from = 0
    /\ Len(tokens) = 5 /\ last.to = 5
    /\ last.msg = <<"Error in operand of 'not': ", "Missing left-hand side operand to ", "'or'">>

\* C17: an index selection is accepted only when its criterion is a number
\* without a fractional part: any other token fails with a parser error and
\* leaves the iterator where it was; when accepted, three tokens are consumed
\* and the IndexExpr holds the operator of the operator token and an index
\* equal to the number, whatever its sign and its size.
C17_IndexAccepted ==
    last.op = "index" =>
       /\ tokens[last.from + 2].type # "NUM" \/ tokens[last.from + 2].number.frac =>
             last.status = "ParserError" /\ last.to = last.from /\ begin = last.from
       /\ tokens[last.from + 2].type = "NUM" /\ ~tokens[last.from + 2].number.frac =>
             /\ last.status = "ok" /\ last.to = last.from + 3 /\ begin = last.to
             /\ last.ast.kind = "index" /\ last.ast.op = tokens[last.from + 1].type
             /\ last.ast.val = tokens[last.from + 2].number.digits
             /\ ~tokens[last.from + 2].number.neg \/ last.ast.val = <<"0">>

\* the atoms of the frame fr that have no residue, or one without an id
NoResidAtoms(fr) ==
    {i \in 0..(FrameSize(fr) - 1) :
        ~HasResidueForAtom(fr, i) \/ ~ResidueForAtom(fr, i).has_id}

\* the residue ids of the topology of the frame fr
ResidsOf(fr) == {fr.residues[k].id : k \in {j \in 1..Len(fr.residues) : fr.residues[j].has_id}}

\* the residue id column of the line the write recorded in last printed for
\* atom i, as a number
ResidWritten(i) == ParseSizeT(Trim(SubSeq(file[last.from + 3 + i], 1, 5)))

\* C18 as stated: the residue ids a write gives the atoms that have none
\* start at 1 when the topology has no residue id, differ from each other and
\* are above every residue id of the topology (looked at where the generated
\* id fits the column, so where it is written as a number).
C18_GeneratedResids ==
    (last.op = "write" /\ last.status = "ok") =>
        /\ ResidsOf(last.pre) = {} /\ NoResidAtoms(last.pre) # {} =>
              \E i \in NoResidAtoms(last.pre) : ResidWritten(i).ok /\ ResidWritten(i).v = 1
        /\ \A i, j \in NoResidAtoms(last.pre) :
              i # j /\ ResidWritten(i).ok /\ ResidWritten(j).ok =>
                  ResidWritten(i).v # ResidWritten(j).v
        /\ \A i \in NoResidAtoms(last.pre) : \A id \in ResidsOf(last.pre) :
              ResidWritten(i).ok => ResidWritten(i).v > id

\* the residue id column of the k-th atom line of the step the read recorded
\* in last has read, as parse<size_t> takes it
ResidRead(k) == ParseSizeT(SubSeq(file[last.from + 2 + k], 1, 5))

\* the residue name column of that line
ResnameRead(k) == Trim(SubSeq(file[last.from + 2 + k], 6, 10))

\* the atoms of the step read whose residue id is id
AtomsOfResid(id) == {i \in 0..(FrameSize(frame) - 1) : ResidRead(i + 1).ok /\ ResidRead(i + 1).v = id}

\* C19: after a read of a step that succeeds the residues of the frame are
\* one residue for each residue id that parses in the atom lines of the step:
\* it holds the atoms of the lines with that id and has the residue name of
\* the first of them; an atom whose residue id does not parse is in no
\* residue; every atom of a residue is below frame.size(); and nothing is left
\* of the residues of a step read before with the same format.
C19_ResiduesOfStep ==
    (last.op \in {"read", "read_step"} /\ last.status = "ok") =>
        /\ \A k \in 1..Len(frame.residues) :
              /\ frame.residues[k].has_id
              /\ frame.residues[k].atoms # {}
              /\ frame.residues[k].atoms = AtomsOfResid(frame.residues[k].id)
              /\ \E i \in frame.residues[k].atoms :
                    /\ \A j \in frame.residues[k].atoms : i <= j
                    /\ frame.residues[k].name = ResnameRead(i + 1)
              /\ \A a \in frame.residues[k].atoms : a < FrameSize(frame)
              /\ \A j \in 1..Len(frame.residues) :
                    j # k => frame.residues[j].id # frame.residues[k].id
        /\ \A i \in 0..(FrameSize(frame) - 1) :
              /\ ResidRead(i + 1).ok =>
                    \E k \in 1..Len(frame.residues) : i \in frame.residues[k].atoms
              /\ ~ResidRead(i + 1).ok =>
                    \A k \in 1..Len(frame.residues) : i \notin frame.residues[k].atoms
        /\ residues_ = {frame.residues[k] : k \in 1..Len(frame.residues)}

\* a step of three atoms, the first and the third with the residue id 1 and
\* the second with none, read after a step with the residues 1 and 2
C19_Witness ==
    /\ last.op = "read" /\ last.status = "ok" /\ FrameSize(frame) = 3
    /\ Len(last.pre.residues) = 2
    /\ frame.residues = <<[name |-> rWAT, id |-> 1, has_id |-> TRUE, atoms |-> {0, 2}]>>
    /\ ~ResidRead(2).ok /\ ResnameRead(3) = rSOL

\* C20: opening a GRO file to read it ends, whatever the lines of the file:
\* each iteration of the scan moves the stream forward by a line or more,
\* sets its end-of-file bit or throws the format error, the loop is left, and
\* when the constructor returns the stream is back at the start of the file.
C20_ScanEnds ==
    /\ <>(opened \in {"yes", "failed"})
    /\ [][opened = "scanning" /\ ~eofbit =>
             cursor' > cursor \/ eofbit' \/ opened' = "failed"]_vars
    /\ [](opened = "yes" => cursor = 0 /\ ~eofbit)

\* the constructor has returned on a file of a step, two lines that are no
\* step (the second is no atom count) and one more step
C20_Witness ==
    /\ opened = "yes" /\ last.op = "rewind" /\ last.from = Len(file)
    /\ Len(layout) = 3 /\ layout[1].kind = "good" /\ layout[2].kind = "junk"
    /\ layout[3].kind = "good"
    /\ steps_positions = <<0, layout[3].start>>

\* a piece of the file that has all the lines of a step: title, atom count,
\* atom lines and box line
IsStep(c) ==
    \/ c.kind \in {"good", "nobox", "bad"}
    \/ c.kind = "written" /\ c.len = c.natoms + 3

\* C21 as stated: whatever was called on a GROFormat, entry i of its index is
\* the position of the title line of step i and nsteps() is the number of
\* whole steps of the file; after k writes to a new file nsteps() = k and
\* entry i is where the i-th frame written starts.
C21_StepIndex ==
    opened = "yes" =>
        /\ nsteps = Len(SelectSeq(layout, IsStep))
        /\ \A i \in 1..nsteps :
              i <= Len(SelectSeq(layout, IsStep)) =>
                  steps_positions[i] = SelectSeq(layout, IsStep)[i].start

\* C22 as stated: an atom line written without an error has the residue id,
\* the residue name, the atom name and the atom index in five characters each
\* and the coordinates in the columns 20 to 43, eight characters each (so 44
\* characters, 68 with velocities), whatever the name, the residue and the
\* values that pass the size check; the line is read back with the name and
\* the coordinates written.
C22_FixedColumns ==
    /\ (last.op = "write_columns" /\ last.status = "ok") =>
          /\ Len(file[1]) = (IF layout[1].has_vel THEN 68 ELSE 44)
          /\ Trim(SubSeq(file[1], 11, 15)) = layout[1].title
          /\ \A k \in 1..3 : Near(PositionColumns(file[1])[k] * 10, layout[1].pos[k], 500)
    /\ (last.op = "read_back" /\ Len(layout) = 1 /\ "pos" \in DOMAIN layout[1]) =>
          /\ last.status = "ok"
          /\ FrameSize(frame) = 1
          /\ frame.atoms[1] = layout[1].title
          /\ \A k \in 1..3 : Near(frame.positions[1][k], layout[1].pos[k], 500)

====
